---- MODULE Spec2Model ----
(***************************************************************************)
(* Model of github.com/roy2220/depinj (depinj.go): a pool of pods whose    *)
(* import/export/filter entries are resolved in three phases, set up in    *)
(* dependency order and torn down in reverse order.                        *)
(*                                                                         *)
(* Representation                                                          *)
(*   - a ref id is a sequence of tokens: <<>> is "", <<"x">> is "x" and    *)
(*     <<"@", "x">> is the ref link "@x";                                  *)
(*   - a field value is a sequence of tokens, <<>> being the zero value;   *)
(*     a setup hook assigns <<Init>> to its export fields and a filter     *)
(*     hook appends its Suffix through the pointer held by its field;      *)
(*   - a *pod is <<cap, idx>>: slot idx of the backing array of capacity   *)
(*     cap of PodPool.pods (append moves the pods to a new array when the  *)
(*     capacity is exceeded, the old array stays reachable through         *)
(*     firstPod/lastPod/Next/Prev); the entry slices of a pod are shared   *)
(*     by all copies of the pod, so an *exportEntry or *filterEntry is     *)
(*     <<idx, entry index>>.                                               *)
(***************************************************************************)
EXTENDS Integers, Sequences, FiniteSets, TLC

\* the calls of AddPod, SetUp and TearDown a host program makes on its pool
MaxOps == 5

NilPod == <<0, 0>>
NoEntry == <<0, 0>>
Zero == <<>>
NilPtr == <<0, 0>>

NoErr == [Kind |-> "nil", Msg |-> <<>>]

\* a Go map with no key
EmptyMap == [x \in {} |-> x]

ResolutionErrKinds ==
    {"ErrBadImportEntry", "ErrBadExportEntry", "ErrBadFilterEntry", "ErrPodCircularDependency"}

HookErrKinds == {"SetupFailed", "FilterFailed"}

\* reflect.Type.Elem of the pointer types used by filter fields
Elem(t) ==
    CASE t = "*int" -> "int"
      [] t = "*string" -> "string"
      [] OTHER -> "invalid"

\* reflect.PtrTo
PtrTo(t) ==
    CASE t = "int" -> "*int"
      [] t = "string" -> "*string"
      [] OTHER -> "invalid"

isRefLink(refLink) == Len(refLink) >= 1 /\ refLink[1] = "@"
(***************************************************************************)
(* Errors: the sentinel wrapped by the error and the parts of its message. *)
(***************************************************************************)
Err(kind, reason, parts) == [Kind |-> kind, Msg |-> <<<<reason>>>> \o parts]

(***************************************************************************)
(* The structures a host program registers, as they are declared: the      *)
(* fields in declaration order, each with its struct tag, the methods      *)
(* beside those of the Pod interface, and what the hooks do.  A struct tag *)
(* is a map from tag key to the tag value split at the commas: the ref id, *)
(* then for a filter the method name and the priority, a string of         *)
(* characters.  An export with Init "" is left alone by the setup hook     *)
(* (DummyPod.SetUp); a filter with Suffix "" has a hook that leaves the    *)
(* value alone (podD7.ModifyFoo).                                          *)
(* StrangerA, StrangerB and Hijacker are the pods of tutorial 2 of         *)
(* README.md; pod1, pod3, podE1, podC1, podC2, podC3, podC6, podD5, podD6  *)
(* and podD7 are pods of the test file; the others are further pods in     *)
(* their style: Polisher has two filters of one priority on one export,    *)
(* Counter exports by type and Adder filters by type, Relay imports        *)
(* through a ref link (README tutorial 3) and exports by type, Herald      *)
(* exports and Whisperer filters through a ref link, Echo, Meddler and     *)
(* Tamperer close cycles, Tamperer through either of two filters of one    *)
(* priority.  Lodger embeds a structure with a bad field behind a good     *)
(* one, Squatter a structure whose only entry is on a bad field.           *)
(* podA1 (an int passed by value), *podA1 (a pointer to it), DummyPod (a   *)
(* structure without entries) and podB1 to podB10 (a field that does not   *)
(* parse each) are the pods of the test file that AddPod rejects.          *)
(***************************************************************************)
FilterFunc == "func(context.Context) error"

\* a field that is not an embedded structure
Field(name, type, tag, init, suffix) ==
    [Name |-> name, FieldType |-> type, Anonymous |-> FALSE, Tag |-> tag,
     Init |-> init, Suffix |-> suffix]

\* a field without a tag
Plain(name, type) == Field(name, type, EmptyMap, "", "")

\* Name type `import:"refID"`
Imp(name, refID, type) == Field(name, type, "import" :> <<refID>>, "", "")

\* Name type `export:"refID"`, assigned init by the SetUp of its structure
Exp(name, refID, type, init) == Field(name, type, "export" :> <<refID>>, init, "")

\* Name type `filter:"refID,args..."`, its method appending suffix
Fil(name, refID, type, args, suffix) ==
    Field(name, type, "filter" :> (<<refID>> \o args), "", suffix)

\* the methods a structure gets from its embedded structures
RECURSIVE Promoted(_, _)
Promoted(fields, i) ==
    IF i > Len(fields) THEN EmptyMap
    ELSE (IF fields[i].Anonymous THEN fields[i].Methods ELSE EmptyMap)
         @@ Promoted(fields, i + 1)

\* the method set of a pointer to a structure: the methods declared on the
\* structure, then the promoted ones
MethodSet(fields, methods) == methods @@ Promoted(fields, 1)

\* an anonymous field of structure type
Emb(name, fields, methods) ==
    [Name |-> name, FieldType |-> "struct", Anonymous |-> TRUE,
     Fields |-> fields, Methods |-> MethodSet(fields, methods)]

\* methods of the type a filter expects
Methods(names) == [m \in names |-> FilterFunc]

\* depinj.DummyPod embedded
DummyPod ==
    Emb("DummyPod", <<>>,
        ("ResolveRefLink" :> "func(string) (string, bool)")
        @@ ("SetUp" :> FilterFunc) @@ ("TearDown" :> "func()"))

PodType(fields, methods, refLinks) ==
    [fields |-> fields, methods |-> methods, links |-> refLinks]

PodTypes == {"StrangerA", "StrangerB", "Hijacker", "Polisher", "Counter", "Adder",
             "pod1", "Sponger", "Relay", "pod3", "podE1", "Echo", "Meddler", "Tamperer",
             "Herald", "Whisperer", "podC1", "podC2", "podC3", "podC6", "podD5", "podD6", "podD7",
             "podA1", "*podA1", "DummyPod", "Lodger", "Squatter",
             "podB1", "podB2", "podB3", "podB4", "podB5", "podB6", "podB7", "podB8",
             "podB9", "podB10"}

\* the host programs: each registers one pod of some of its pod types
Programs == {{"StrangerA", "StrangerB", "Hijacker"},
             {"StrangerA", "Hijacker", "Polisher"},
             {"Counter", "pod3", "Adder", "podE1"},
             {"StrangerA", "Relay", "Echo", "Meddler", "Tamperer"},
             {"Herald", "Relay", "Whisperer"},
             {"podC1", "podC2", "podC3"},
             {"podD5", "podD6", "podD7"},
             {"podC6", "Counter", "podD5", "pod3"},
             {"pod1", "podD7"},
             {"pod1", "Sponger"},
             {"StrangerA", "StrangerB", "podA1", "*podA1", "DummyPod", "podB9"},
             {"StrangerA", "Lodger", "Squatter"},
             {"StrangerA", "podB1", "podB2", "podB3", "podB4", "podB5",
              "podB6", "podB7", "podB8", "podB10"}}

StructDef(k) ==
    CASE k = "StrangerA" ->
           PodType(<<DummyPod, Exp("Greeting", <<"the_greeting">>, "string", "Hi!")>>,
                   EmptyMap, {})
      [] k = "StrangerB" ->
           PodType(<<DummyPod, Imp("Greeting", <<"the_greeting">>, "string")>>,
                   EmptyMap, {})
      [] k = "Hijacker" ->
           PodType(<<DummyPod,
                     Fil("Greeting", <<"the_greeting">>, "*string",
                         <<"ModifyGreeting", <<"0">> >>, " Jack!")>>,
                   Methods({"ModifyGreeting"}), {})
      [] k = "Polisher" ->
           PodType(<<DummyPod,
                     Fil("First", <<"the_greeting">>, "*string",
                         <<"PolishFirst", <<"1">> >>, " x"),
                     Fil("Second", <<"the_greeting">>, "*string",
                         <<"PolishSecond", <<"1">> >>, " y")>>,
                   Methods({"PolishFirst", "PolishSecond"}), {})
      [] k = "Counter" ->
           PodType(<<DummyPod, Exp("Foo", <<>>, "int", "7")>>, EmptyMap, {})
      [] k = "Adder" ->
           PodType(<<DummyPod,
                     Fil("Foo", <<>>, "*int", <<"ModifyFoo", <<"-", "1">> >>, "+1")>>,
                   Methods({"ModifyFoo"}), {})
      [] k = "pod1" ->
           PodType(<<DummyPod,
                     Exp("Foo", <<"Foo">>, "int", "100"),
                     Fil("Foo2", <<"Foo">>, "*int",
                         <<"ModifyFoo", <<"1", "0", "0">> >>, "-1")>>,
                   Methods({"ModifyFoo"}), {})
      [] k = "Sponger" ->
           PodType(<<DummyPod,
                     Imp("Taken", <<"Foo">>, "int"),
                     Fil("Given", <<"Foo">>, "*int",
                         <<"ModifyGiven", <<"5">> >>, "+5")>>,
                   Methods({"ModifyGiven"}), {})
      [] k = "Relay" ->
           PodType(<<DummyPod,
                     Imp("Greeting", <<"@", "guess_what">>, "string"),
                     Exp("Bar", <<>>, "int", "2")>>,
                   EmptyMap,
                   {<< <<"@", "guess_what">>, <<"the_greeting">> >>})
      [] k = "pod3" ->
           PodType(<<DummyPod, Imp("Bar", <<>>, "int")>>, EmptyMap, {})
      [] k = "podE1" ->
           PodType(<<DummyPod, Imp("FooI", <<>>, "int"), Exp("FooE", <<>>, "int", "")>>,
                   EmptyMap, {})
      [] k = "Echo" ->
           PodType(<<DummyPod,
                     Imp("Foo", <<>>, "int"),
                     Exp("Bar", <<"the_greeting">>, "string", "Yo!")>>,
                   EmptyMap, {})
      [] k = "Meddler" ->
           PodType(<<DummyPod,
                     Imp("Foo", <<"the_greeting">>, "string"),
                     Fil("Bar", <<"the_greeting">>, "*string",
                         <<"ModifyBar", <<"-", "1">> >>, " w")>>,
                   Methods({"ModifyBar"}), {})
      [] k = "Tamperer" ->
           PodType(<<DummyPod,
                     Imp("Greeting", <<"the_greeting">>, "string"),
                     Fil("First", <<"the_greeting">>, "*string",
                         <<"TamperFirst", <<"1">> >>, " p"),
                     Fil("Second", <<"the_greeting">>, "*string",
                         <<"TamperSecond", <<"1">> >>, " q")>>,
                   Methods({"TamperFirst", "TamperSecond"}), {})
      [] k = "Herald" ->
           PodType(<<DummyPod, Exp("Greeting", <<"@", "announce">>, "string", "Hey!")>>,
                   EmptyMap,
                   {<< <<"@", "announce">>, <<"the_greeting">> >>})
      [] k = "Whisperer" ->
           PodType(<<DummyPod,
                     Fil("Greeting", <<"@", "overheard">>, "*string",
                         <<"ModifyGreeting", <<"0">> >>, " psst")>>,
                   Methods({"ModifyGreeting"}),
                   {<< <<"@", "overheard">>, <<"the_greeting">> >>})
      [] k = "podC1" ->
           PodType(<<DummyPod, Imp("Foo", <<"@", "Foo">>, "int")>>, EmptyMap, {})
      [] k = "podC2" ->
           PodType(<<DummyPod, Exp("Foo", <<"@", "Foo">>, "int", "")>>, EmptyMap, {})
      [] k = "podC3" ->
           PodType(<<DummyPod,
                     Fil("Foo", <<"@", "Foo">>, "*int", <<"ModifyFoo", <<"-", "1">> >>, "")>>,
                   Methods({"ModifyFoo"}), {})
      [] k = "podC6" ->
           PodType(<<DummyPod, Exp("Foo", <<"Foo">>, "int", "")>>, EmptyMap, {})
      [] k = "podD5" ->
           PodType(<<DummyPod, Imp("Foo", <<"Foo">>, "int")>>, EmptyMap, {})
      [] k = "podD6" ->
           PodType(<<DummyPod, Exp("Foo", <<"Foo">>, "string", "")>>, EmptyMap, {})
      [] k = "podD7" ->
           PodType(<<DummyPod,
                     Fil("Foo", <<"Foo">>, "*int", <<"ModifyFoo", <<"-", "1">> >>, "")>>,
                   Methods({"ModifyFoo"}), {})
      [] k = "Lodger" ->
           PodType(<<Emb("Base",
                         <<Plain("Hits", "int"),
                           Imp("Greeting", <<"the_greeting">>, "string"),
                           Exp("foo", <<>>, "int", ""),
                           Exp("Late", <<"late">>, "int", "9")>>,
                         EmptyMap),
                     Exp("Bar", <<>>, "int", "3")>>,
                   EmptyMap, {})
      [] k = "Squatter" ->
           PodType(<<Emb("Cellar", <<Exp("foo", <<>>, "int", "")>>, EmptyMap)>>,
                   EmptyMap, {})
      [] k = "podB1" ->
           PodType(<<DummyPod, Fil("Foo", <<>>, "int", <<"ModifyFoo", <<"0">> >>, "")>>,
                   Methods({"ModifyFoo"}), {})
      [] k = "podB2" ->
           PodType(<<DummyPod, Fil("Foo", <<>>, "*int", <<>>, "")>>, EmptyMap, {})
      [] k = "podB3" ->
           PodType(<<DummyPod, Fil("Foo", <<>>, "*int", <<"ModifyFoo", <<"0">> >>, "")>>,
                   EmptyMap, {})
      [] k = "podB4" ->
           PodType(<<DummyPod, Fil("Foo", <<>>, "*int", <<"modifyFoo", <<"0">> >>, "")>>,
                   Methods({"modifyFoo"}), {})
      [] k = "podB5" ->
           PodType(<<DummyPod, Fil("Foo", <<>>, "*int", <<"ModifyFoo", <<"0">> >>, "")>>,
                   "ModifyFoo" :> "func() error", {})
      [] k = "podB6" ->
           PodType(<<DummyPod, Fil("Foo", <<>>, "*int", <<"ModifyFoo">>, "")>>,
                   Methods({"ModifyFoo"}), {})
      [] k = "podB7" ->
           PodType(<<DummyPod, Fil("Foo", <<>>, "*int", <<"ModifyFoo", <<>> >>, "")>>,
                   Methods({"ModifyFoo"}), {})
      [] k = "podB8" ->
           PodType(<<DummyPod, Fil("foo", <<>>, "*int", <<"ModifyFoo", <<"0">> >>, "")>>,
                   Methods({"ModifyFoo"}), {})
      [] k = "podB9" ->
           PodType(<<DummyPod, Imp("foo", <<>>, "int")>>, EmptyMap, {})
      [] k = "podB10" ->
           PodType(<<DummyPod, Exp("foo", <<>>, "int", "")>>, EmptyMap, {})
      [] k \in {"podA1", "*podA1", "DummyPod"} ->
           PodType(<<>>, EmptyMap, {})

\* reflect.ValueOf(raw).Kind() and the kind of what a pointer points to
Kind(k) == IF k = "podA1" THEN "int" ELSE "ptr"
ElemKind(k) == IF k = "*podA1" THEN "int" ELSE "struct"

\* reflect.Type.Kind of a field type
TypeKind(t) ==
    CASE t \in {"*int", "*string"} -> "ptr"
      [] t = "struct" -> "struct"
      [] OTHER -> t

\* reflect.StructField.PkgPath is not empty: the field is unexported; the
\* same rule (no upper-case first letter) keeps a method out of the method
\* set reflect sees
Unexported(name) == name \in {"foo", "modifyFoo"}

\* fieldInfo.Path: the path of the enclosing field or, at the top, the
\* structure type, then the field name
Path(parent, name) == Append(parent, name)

\* strconv.Atoi on a string of characters: an optional sign, then digits
\* (the priorities are short, none is out of range)
DigitValue ==
    ("0" :> 0) @@ ("1" :> 1) @@ ("2" :> 2) @@ ("3" :> 3) @@ ("4" :> 4) @@
    ("5" :> 5) @@ ("6" :> 6) @@ ("7" :> 7) @@ ("8" :> 8) @@ ("9" :> 9)

RECURSIVE DigitsValue(_, _, _)
DigitsValue(s, i, acc) ==
    IF i > Len(s) THEN acc ELSE DigitsValue(s, i + 1, 10 * acc + DigitValue[s[i]])

Atoi(s) ==
    LET signed == Len(s) >= 1 /\ s[1] \in {"+", "-"}
        digits == IF signed THEN Tail(s) ELSE s
    IN IF digits = <<>> \/ \E i \in DOMAIN digits : digits[i] \notin DOMAIN DigitValue
       THEN [n |-> 0, err |-> "invalid syntax"]
       ELSE [n |-> IF signed /\ s[1] = "-" THEN 0 - DigitsValue(digits, 1, 0)
                   ELSE DigitsValue(digits, 1, 0),
             err |-> "nil"]

\* reflect.Value.MethodByName on the address of a structure: the type of
\* the method, "invalid" for the zero Value
MethodByName(methods, name) ==
    IF name \in DOMAIN methods /\ ~Unexported(name) THEN methods[name] ELSE "invalid"

\* entry.ParseField for a field that has the tag key: the entry it fills in
\* (the arguments it returns are f.Tag[key])
EntryParseField(parent, f, key) ==
    [Path |-> Path(parent, f.Name), Name |-> f.Name, FieldType |-> f.FieldType,
     RefID |-> f.Tag[key][1], Init |-> f.Init, Suffix |-> f.Suffix, Priority |-> 0]

\* importEntry.ParseField
ImportEntryParseField(parent, f) ==
    IF "import" \notin DOMAIN f.Tag THEN [ok |-> FALSE, err |-> NoErr]
    ELSE IF Unexported(f.Name)
    THEN [ok |-> FALSE,
          err |-> Err("ErrBadImportEntry", "field unexported", <<Path(parent, f.Name)>>)]
    ELSE [ok |-> TRUE, err |-> NoErr, entry |-> EntryParseField(parent, f, "import")]

\* exportEntry.ParseField
ExportEntryParseField(parent, f) ==
    IF "export" \notin DOMAIN f.Tag THEN [ok |-> FALSE, err |-> NoErr]
    ELSE IF Unexported(f.Name)
    THEN [ok |-> FALSE,
          err |-> Err("ErrBadExportEntry", "field unexported", <<Path(parent, f.Name)>>)]
    ELSE [ok |-> TRUE, err |-> NoErr, entry |-> EntryParseField(parent, f, "export")]

\* an error of filterEntry.ParseField
BadFilterEntry(reason, parts) ==
    [ok |-> FALSE, err |-> Err("ErrBadFilterEntry", reason, parts)]

\* the end of filterEntry.ParseField, priority being what strconv.Atoi
\* returned for the third argument
FilterPriorityParsed(parent, f, priority) ==
    IF priority.err # "nil"
    THEN BadFilterEntry("priority parse failed",
                        <<Path(parent, f.Name), f.Tag["filter"][3],
                          <<"%v", priority.err>> >>)
    ELSE [ok |-> TRUE, err |-> NoErr,
          entry |-> [EntryParseField(parent, f, "filter") EXCEPT !.Priority = priority.n]]

\* filterEntry.ParseField: the method is looked up on the structure that
\* holds the field
FilterEntryParseField(parent, f, methods) ==
    IF "filter" \notin DOMAIN f.Tag THEN [ok |-> FALSE, err |-> NoErr]
    ELSE IF Unexported(f.Name)
    THEN BadFilterEntry("field unexported", <<Path(parent, f.Name)>>)
    ELSE IF TypeKind(f.FieldType) # "ptr"
    THEN BadFilterEntry("non-pointer field type", <<Path(parent, f.Name), <<f.FieldType>> >>)
    ELSE IF Len(f.Tag["filter"]) < 2
    THEN BadFilterEntry("missing argument 'methodName'", <<Path(parent, f.Name)>>)
    ELSE IF MethodByName(methods, f.Tag["filter"][2]) = "invalid"
    THEN BadFilterEntry("method undefined or unexported",
                        <<Path(parent, f.Name), <<f.Tag["filter"][2]>> >>)
    ELSE IF MethodByName(methods, f.Tag["filter"][2]) # FilterFunc
    THEN BadFilterEntry("function type mismatch",
                        << <<FilterFunc>>, <<MethodByName(methods, f.Tag["filter"][2])>>,
                           Path(parent, f.Name), <<f.Tag["filter"][2]>> >>)
    ELSE IF Len(f.Tag["filter"]) < 3
    THEN BadFilterEntry("missing argument 'priority'", <<Path(parent, f.Name)>>)
    ELSE FilterPriorityParsed(parent, f, Atoi(f.Tag["filter"][3]))

RECURSIVE parseStructure(_, _, _, _, _)

\* one turn of the loop of pod.parseStructure on a field that is not an
\* embedded structure, ie, ee and fe being what the three ParseField return
\* for it: the first that is ok appends its entry, the first error ends
\* the loop
parseField(p, parent, fields, methods, i, ie, ee, fe) ==
    IF ie.ok
    THEN parseStructure([p EXCEPT !.imports = Append(@, ie.entry)],
                        parent, fields, methods, i + 1)
    ELSE IF ie.err # NoErr THEN [p EXCEPT !.err = ie.err]
    ELSE IF ee.ok
    THEN parseStructure([p EXCEPT !.exports = Append(@, ee.entry)],
                        parent, fields, methods, i + 1)
    ELSE IF ee.err # NoErr THEN [p EXCEPT !.err = ee.err]
    ELSE IF fe.ok
    THEN parseStructure([p EXCEPT !.filters = Append(@, fe.entry)],
                        parent, fields, methods, i + 1)
    ELSE IF fe.err # NoErr THEN [p EXCEPT !.err = fe.err]
    ELSE parseStructure(p, parent, fields, methods, i + 1)

\* pod.parseStructure from field i of a structure on: the entries appended
\* to those of p and the error returned; the fields of an embedded
\* structure are parsed in place and the error of that parse is dropped
parseStructure(p, parent, fields, methods, i) ==
    IF i > Len(fields) THEN [p EXCEPT !.err = NoErr]
    ELSE IF fields[i].Anonymous /\ TypeKind(fields[i].FieldType) = "struct"
    THEN parseStructure(parseStructure(p, Path(parent, fields[i].Name),
                                       fields[i].Fields, fields[i].Methods, 1),
                        parent, fields, methods, i + 1)
    ELSE parseField(p, parent, fields, methods, i,
                    ImportEntryParseField(parent, fields[i]),
                    ExportEntryParseField(parent, fields[i]),
                    FilterEntryParseField(parent, fields[i], methods))

\* what pod.parseStructure(nil, ...) leaves of a structure declared as d:
\* the entries in the order they were appended, the error, and
\* Pod.ResolveRefLink
ParseDeclared(k, d) ==
    parseStructure([imports |-> <<>>, exports |-> <<>>, filters |-> <<>>,
                    err |-> NoErr, links |-> d.links],
                   <<k>>, d.fields, MethodSet(d.fields, d.methods), 1)

ParsedStructure(k) == ParseDeclared(k, StructDef(k))

\* the parsed structures of the pod types
PodTypeDefs == [k \in PodTypes |-> ParsedStructure(k)]

\* the entries of pod type k with what its hooks do with them
PodTypeDef(k) == PodTypeDefs[k]

\* Pod.ResolveRefLink of a pod type
RawResolveRefLink(k, refLink) ==
    LET links == PodTypeDef(k).links
    IN IF \E pr \in links : pr[1] = refLink
       THEN [refID |-> (CHOOSE pr \in links : pr[1] = refLink)[2], ok |-> TRUE]
       ELSE [refID |-> <<>>, ok |-> FALSE]

\* pod.parseStructure of the structure a pod points to: the error returned
ParseStructureError(k) == PodTypeDef(k).err

\* the number of entries pod.parseStructure collects
NumEntries(k) ==
    Len(PodTypeDef(k).imports) + Len(PodTypeDef(k).exports) + Len(PodTypeDef(k).filters)

\* pod.ParseRaw accepting a structure without entries
ParseRawError_NoEntryCheck(k) ==
    IF Kind(k) # "ptr"
    THEN Err("ErrInvalidPod", "non-pointer type", << <<k>> >>)
    ELSE IF ElemKind(k) # "struct"
    THEN Err("ErrInvalidPod", "non-structure pointer type", << <<k>> >>)
    ELSE ParseStructureError(k)

\* pod.ParseRaw: the error it returns, NoErr when the pod parses
ParseRawError(k) ==
    IF Kind(k) # "ptr"
    THEN Err("ErrInvalidPod", "non-pointer type", << <<k>> >>)
    ELSE IF ElemKind(k) # "struct"
    THEN Err("ErrInvalidPod", "non-structure pointer type", << <<k>> >>)
    ELSE IF ParseStructureError(k) # NoErr
    THEN ParseStructureError(k)
    ELSE IF NumEntries(k) = 0
    THEN Err("ErrInvalidPod", "no import/export/filter entry", << <<k>> >>)
    ELSE NoErr

\* pod.ParseRaw: the entries of a pod in the order parsed, fields zero
ParseRaw(k) ==
    LET d == PodTypeDef(k)
    IN [Raw |-> k,
        ImportEntries |->
            [i \in 1..Len(d.imports) |->
                [Path |-> d.imports[i].Path, FieldValue |-> Zero,
                 FieldType |-> d.imports[i].FieldType, RefID |-> d.imports[i].RefID,
                 Pod |-> NilPod, ExportEntry |-> NoEntry]],
        ExportEntries |->
            [i \in 1..Len(d.exports) |->
                [Path |-> d.exports[i].Path, FieldValue |-> Zero,
                 FieldType |-> d.exports[i].FieldType, RefID |-> d.exports[i].RefID,
                 Pod |-> NilPod, FilterEntries |-> <<>>]],
        FilterEntries |->
            [i \in 1..Len(d.filters) |->
                [Path |-> d.filters[i].Path, FieldValue |-> NilPtr,
                 FieldType |-> d.filters[i].FieldType, RefID |-> d.filters[i].RefID,
                 Priority |-> d.filters[i].Priority, Pod |-> NilPod]]]



\* the error a failing hook of the pods returns (pod6.SetUp and
\* pod10.ModifyFoo return ctx.Err() of a cancelled context)
HookError == "context.Canceled"

\* fmt.Errorf with a message that drops the error of the hook
Wrap_Swallows(kind, reason, parts, cause) == Err(kind, reason, parts)

\* fmt.Errorf with the verb %w as last argument: the error wraps cause
Wrap(kind, reason, parts, cause) == Err(kind, reason, parts \o << <<"%w", cause>> >>)

\* errors.Is on the errors of the pool: the error a formatted error wraps is
\* its cause if it has one, the sentinel of its kind otherwise
IsError(err, target) ==
    IF Len(err.Msg) > 0 /\ err.Msg[Len(err.Msg)][1] = "%w"
    THEN err.Msg[Len(err.Msg)][2] = target
    ELSE err.Kind = target

\* pointer into PodPool.pods: &pp.pods[i] for the backing array of capacity c
PodAddr(c, i) == <<c, i>>

(***************************************************************************)
(* Phases 1 and 2.  A resolution state r carries the pods (whose entries   *)
(* the phases write), the two lookup tables of resolution12Context and     *)
(* the error that stopped the resolution, if any.                          *)
(***************************************************************************)
\* entry.ResolveRefLink
\* entry.ResolveRefLink leaving a resolved ref link in place
EntryResolveRefLink_KeepsLink(refID, raw) ==
    IF isRefLink(refID) /\ ~RawResolveRefLink(raw, refID).ok
    THEN [RefID |-> refID, refLink |-> refID, ok |-> FALSE]
    ELSE [RefID |-> refID, refLink |-> <<>>, ok |-> TRUE]

EntryResolveRefLink(refID, raw) ==
    IF isRefLink(refID)
    THEN LET res == RawResolveRefLink(raw, refID)
         IN IF ~res.ok
            THEN [RefID |-> refID, refLink |-> refID, ok |-> FALSE]
            ELSE [RefID |-> res.refID, refLink |-> <<>>, ok |-> TRUE]
    ELSE [RefID |-> refID, refLink |-> <<>>, ok |-> TRUE]

\* importEntry.Resolve1
ImportResolve1(r, c, i, j) ==
    LET ie == r.pods[i].ImportEntries[j]
        res == EntryResolveRefLink(ie.RefID, r.pods[i].Raw)
        pods1 == [r.pods EXCEPT ![i].ImportEntries[j].Pod = PodAddr(c, i),
                                ![i].ImportEntries[j].RefID = res.RefID]
    IN IF ~res.ok
       THEN [r EXCEPT !.pods = pods1,
                      !.err = Err("ErrBadImportEntry", "unresolvable ref link",
                                  <<ie.Path, res.refLink>>)]
       ELSE [r EXCEPT !.pods = pods1]

\* resolution12Context.AddExportEntryByFieldType
\* resolution12Context.AddExportEntryByFieldType replacing the export already
\* registered under the field type
AddExportEntryByFieldType_Overwrites(r, ee, fieldType) ==
    [r |-> [r EXCEPT !.fieldType2ExportEntry =
                (fieldType :> ee) @@ [t \in DOMAIN @ \ {fieldType} |-> @[t]]],
     conflicting |-> NoEntry, ok |-> TRUE]

AddExportEntryByFieldType(r, ee, fieldType) ==
    IF fieldType \in DOMAIN r.fieldType2ExportEntry
    THEN [r |-> r, conflicting |-> r.fieldType2ExportEntry[fieldType], ok |-> FALSE]
    ELSE [r |-> [r EXCEPT !.fieldType2ExportEntry = (fieldType :> ee) @@ @],
          conflicting |-> NoEntry, ok |-> TRUE]

\* resolution12Context.AddExportEntryByRefID
AddExportEntryByRefID(r, ee, refID) ==
    IF refID \in DOMAIN r.refID2ExportEntry
    THEN [r |-> r, conflicting |-> r.refID2ExportEntry[refID], ok |-> FALSE]
    ELSE [r |-> [r EXCEPT !.refID2ExportEntry = (refID :> ee) @@ @],
          conflicting |-> NoEntry, ok |-> TRUE]

\* resolution12Context.FindExportEntryByFieldType finding nothing
FindExportEntryByFieldType_Missing(r, fieldType) ==
    [exportEntry |-> NoEntry, ok |-> FALSE]

\* resolution12Context.FindExportEntryByFieldType
FindExportEntryByFieldType(r, fieldType) ==
    IF fieldType \in DOMAIN r.fieldType2ExportEntry
    THEN [exportEntry |-> r.fieldType2ExportEntry[fieldType], ok |-> TRUE]
    ELSE [exportEntry |-> NoEntry, ok |-> FALSE]

\* resolution12Context.FindExportEntryByRefID
FindExportEntryByRefID(r, refID) ==
    IF refID \in DOMAIN r.refID2ExportEntry
    THEN [exportEntry |-> r.refID2ExportEntry[refID], ok |-> TRUE]
    ELSE [exportEntry |-> NoEntry, ok |-> FALSE]

\* exportEntry.Resolve1 registering an export with a ref id under its field
\* type as well
ExportResolve1_BothKeys(r, c, i, j) ==
    LET ee == r.pods[i].ExportEntries[j]
        res == EntryResolveRefLink(ee.RefID, r.pods[i].Raw)
        pods1 == [r.pods EXCEPT ![i].ExportEntries[j].Pod = PodAddr(c, i),
                                ![i].ExportEntries[j].RefID = res.RefID]
        r1 == [r EXCEPT !.pods = pods1]
        byType == AddExportEntryByFieldType(r1, <<i, j>>, ee.FieldType)
        byID == AddExportEntryByRefID(IF byType.ok THEN byType.r ELSE r1, <<i, j>>, res.RefID)
    IN IF ~res.ok
       THEN [r1 EXCEPT !.err = Err("ErrBadExportEntry", "unresolvable ref link",
                                   <<ee.Path, res.refLink>>)]
       ELSE IF ~byType.ok
       THEN [r1 EXCEPT !.err =
                Err("ErrBadExportEntry", "duplicate field type",
                    <<ee.Path,
                      r1.pods[byType.conflicting[1]].ExportEntries[byType.conflicting[2]].Path,
                      <<ee.FieldType>> >>)]
       ELSE IF res.RefID = <<>>
       THEN byType.r
       ELSE IF ~byID.ok
       THEN [r1 EXCEPT !.err =
                Err("ErrBadExportEntry", "duplicate ref id",
                    <<ee.Path,
                      r1.pods[byID.conflicting[1]].ExportEntries[byID.conflicting[2]].Path,
                      res.RefID>>)]
       ELSE byID.r

\* exportEntry.Resolve1
ExportResolve1(r, c, i, j) ==
    LET ee == r.pods[i].ExportEntries[j]
        res == EntryResolveRefLink(ee.RefID, r.pods[i].Raw)
        pods1 == [r.pods EXCEPT ![i].ExportEntries[j].Pod = PodAddr(c, i),
                                ![i].ExportEntries[j].RefID = res.RefID]
        r1 == [r EXCEPT !.pods = pods1]
        byType == AddExportEntryByFieldType(r1, <<i, j>>, ee.FieldType)
        byID == AddExportEntryByRefID(r1, <<i, j>>, res.RefID)
    IN IF ~res.ok
       THEN [r1 EXCEPT !.err = Err("ErrBadExportEntry", "unresolvable ref link",
                                   <<ee.Path, res.refLink>>)]
       ELSE IF res.RefID = <<>>
       THEN IF ~byType.ok
            THEN [r1 EXCEPT !.err =
                     Err("ErrBadExportEntry", "duplicate field type",
                         <<ee.Path,
                           r1.pods[byType.conflicting[1]].ExportEntries[byType.conflicting[2]].Path,
                           <<ee.FieldType>> >>)]
            ELSE byType.r
       ELSE IF ~byID.ok
            THEN [r1 EXCEPT !.err =
                     Err("ErrBadExportEntry", "duplicate ref id",
                         <<ee.Path,
                           r1.pods[byID.conflicting[1]].ExportEntries[byID.conflicting[2]].Path,
                           res.RefID>>)]
            ELSE byID.r

\* filterEntry.Resolve1
FilterResolve1(r, c, i, j) ==
    LET fe == r.pods[i].FilterEntries[j]
        res == EntryResolveRefLink(fe.RefID, r.pods[i].Raw)
        pods1 == [r.pods EXCEPT ![i].FilterEntries[j].Pod = PodAddr(c, i),
                                ![i].FilterEntries[j].RefID = res.RefID]
    IN IF ~res.ok
       THEN [r EXCEPT !.pods = pods1,
                      !.err = Err("ErrBadFilterEntry", "unresolvable ref link",
                                  <<fe.Path, res.refLink>>)]
       ELSE [r EXCEPT !.pods = pods1]

\* the three loops of pod.Resolve1, each stopping at the first error
RECURSIVE Resolve1Imports(_, _, _, _)
Resolve1Imports(r, c, i, j) ==
    IF r.err # NoErr \/ j > Len(r.pods[i].ImportEntries) THEN r
    ELSE Resolve1Imports(ImportResolve1(r, c, i, j), c, i, j + 1)

RECURSIVE Resolve1Exports(_, _, _, _)
Resolve1Exports(r, c, i, j) ==
    IF r.err # NoErr \/ j > Len(r.pods[i].ExportEntries) THEN r
    ELSE Resolve1Exports(ExportResolve1(r, c, i, j), c, i, j + 1)

RECURSIVE Resolve1Filters(_, _, _, _)
Resolve1Filters(r, c, i, j) ==
    IF r.err # NoErr \/ j > Len(r.pods[i].FilterEntries) THEN r
    ELSE Resolve1Filters(FilterResolve1(r, c, i, j), c, i, j + 1)

\* pod.Resolve1
PodResolve1(r, c, i) ==
    Resolve1Filters(Resolve1Exports(Resolve1Imports(r, c, i, 1), c, i, 1), c, i, 1)

\* importEntry.Resolve2 assigning the import field as soon as the export is found
ImportResolve2_Eager(r, i, j) ==
    LET ie == r.pods[i].ImportEntries[j]
        found == IF ie.RefID = <<>>
                 THEN FindExportEntryByFieldType(r, ie.FieldType)
                 ELSE FindExportEntryByRefID(r, ie.RefID)
        ee0 == r.pods[found.exportEntry[1]].ExportEntries[found.exportEntry[2]]
        r1 == [r EXCEPT !.pods[i].ImportEntries[j].ExportEntry = found.exportEntry,
                        !.pods[i].ImportEntries[j].FieldValue =
                            IF found.ok THEN ee0.FieldValue ELSE @]
        ee == r.pods[found.exportEntry[1]].ExportEntries[found.exportEntry[2]]
    IN IF ie.RefID = <<>>
       THEN IF ~found.ok
            THEN [r1 EXCEPT !.err =
                     Err("ErrBadImportEntry", "export entry not found by field type",
                         <<ie.Path, <<ie.FieldType>> >>)]
            ELSE r1
       ELSE IF ~found.ok
            THEN [r1 EXCEPT !.err =
                     Err("ErrBadImportEntry", "export entry not found by ref id",
                         <<ie.Path, ie.RefID>>)]
            ELSE IF ie.FieldType # ee.FieldType
            THEN [r1 EXCEPT !.err =
                     Err("ErrBadImportEntry", "field type mismatch",
                         <<ie.Path, <<ie.FieldType>>, <<ee.FieldType>>, ee.Path>>)]
            ELSE r1

\* importEntry.Resolve2
ImportResolve2(r, i, j) ==
    LET ie == r.pods[i].ImportEntries[j]
        found == IF ie.RefID = <<>>
                 THEN FindExportEntryByFieldType(r, ie.FieldType)
                 ELSE FindExportEntryByRefID(r, ie.RefID)
        r1 == [r EXCEPT !.pods[i].ImportEntries[j].ExportEntry = found.exportEntry]
        ee == r.pods[found.exportEntry[1]].ExportEntries[found.exportEntry[2]]
    IN IF ie.RefID = <<>>
       THEN IF ~found.ok
            THEN [r1 EXCEPT !.err =
                     Err("ErrBadImportEntry", "export entry not found by field type",
                         <<ie.Path, <<ie.FieldType>> >>)]
            ELSE r1
       ELSE IF ~found.ok
            THEN [r1 EXCEPT !.err =
                     Err("ErrBadImportEntry", "export entry not found by ref id",
                         <<ie.Path, ie.RefID>>)]
            ELSE IF ie.FieldType # ee.FieldType
            THEN [r1 EXCEPT !.err =
                     Err("ErrBadImportEntry", "field type mismatch",
                         <<ie.Path, <<ie.FieldType>>, <<ee.FieldType>>, ee.Path>>)]
            ELSE r1

\* filterEntry.Resolve2; the filter is appended unless it is already there
\* filterEntry.Resolve2 without the search for the entry in the filter list
FilterResolve2_AlwaysAppends(r, i, j) ==
    LET fe == r.pods[i].FilterEntries[j]
        fieldType == Elem(fe.FieldType)
        found == IF fe.RefID = <<>>
                 THEN FindExportEntryByFieldType(r, fieldType)
                 ELSE FindExportEntryByRefID(r, fe.RefID)
        x == found.exportEntry
        ee == r.pods[x[1]].ExportEntries[x[2]]
    IN IF fe.RefID = <<>> /\ ~found.ok
       THEN [r EXCEPT !.err =
                Err("ErrBadFilterEntry", "export entry not found by field type",
                    <<fe.Path, <<fieldType>> >>)]
       ELSE IF ~found.ok
       THEN [r EXCEPT !.err =
                Err("ErrBadFilterEntry", "export entry not found by ref id",
                    <<fe.Path, fe.RefID>>)]
       ELSE IF fe.RefID # <<>> /\ fe.FieldType # PtrTo(ee.FieldType)
       THEN [r EXCEPT !.err =
                Err("ErrBadFilterEntry", "field type mismatch",
                    <<fe.Path, <<fe.FieldType>>, <<PtrTo(ee.FieldType)>>, ee.Path>>)]
       ELSE [r EXCEPT !.pods[x[1]].ExportEntries[x[2]].FilterEntries = Append(@, <<i, j>>)]

FilterResolve2(r, i, j) ==
    LET fe == r.pods[i].FilterEntries[j]
        fieldType == Elem(fe.FieldType)
        found == IF fe.RefID = <<>>
                 THEN FindExportEntryByFieldType(r, fieldType)
                 ELSE FindExportEntryByRefID(r, fe.RefID)
        x == found.exportEntry
        ee == r.pods[x[1]].ExportEntries[x[2]]
    IN IF fe.RefID = <<>> /\ ~found.ok
       THEN [r EXCEPT !.err =
                Err("ErrBadFilterEntry", "export entry not found by field type",
                    <<fe.Path, <<fieldType>> >>)]
       ELSE IF ~found.ok
       THEN [r EXCEPT !.err =
                Err("ErrBadFilterEntry", "export entry not found by ref id",
                    <<fe.Path, fe.RefID>>)]
       ELSE IF fe.RefID # <<>> /\ fe.FieldType # PtrTo(ee.FieldType)
       THEN [r EXCEPT !.err =
                Err("ErrBadFilterEntry", "field type mismatch",
                    <<fe.Path, <<fe.FieldType>>, <<PtrTo(ee.FieldType)>>, ee.Path>>)]
       ELSE IF \E k \in 1..Len(ee.FilterEntries) : ee.FilterEntries[k] = <<i, j>>
       THEN r
       ELSE [r EXCEPT !.pods[x[1]].ExportEntries[x[2]].FilterEntries = Append(@, <<i, j>>)]

RECURSIVE Resolve2Imports(_, _, _)
Resolve2Imports(r, i, j) ==
    IF r.err # NoErr \/ j > Len(r.pods[i].ImportEntries) THEN r
    ELSE Resolve2Imports(ImportResolve2(r, i, j), i, j + 1)

RECURSIVE Resolve2Filters(_, _, _)
Resolve2Filters(r, i, j) ==
    IF r.err # NoErr \/ j > Len(r.pods[i].FilterEntries) THEN r
    ELSE Resolve2Filters(FilterResolve2(r, i, j), i, j + 1)

\* pod.Resolve2
PodResolve2(r, i) == Resolve2Filters(Resolve2Imports(r, i, 1), i, 1)

\* the first two loops of PodPool.resolve
RECURSIVE ResolveLoop1(_, _, _)
ResolveLoop1(r, c, i) ==
    IF r.err # NoErr \/ i > Len(r.pods) THEN r
    ELSE ResolveLoop1(PodResolve1(r, c, i), c, i + 1)

RECURSIVE ResolveLoop2(_, _)
ResolveLoop2(r, i) ==
    IF r.err # NoErr \/ i > Len(r.pods) THEN r
    ELSE ResolveLoop2(PodResolve2(r, i), i + 1)


(***************************************************************************)
(* Phase 3: depth-first ordering with cycle detection.  The resolution     *)
(* state also carries the frame stack and pod states of                    *)
(* resolution3Context, its firstPod/lastPod, and links, the Next/Prev      *)
(* fields of every pod struct ever allocated.  entered is the history of   *)
(* the EnterPod calls of the resolution: the pod and the state it had.     *)
(***************************************************************************)
resolution3PodEntered == 1
resolution3PodLeft == 2

\* resolution3Context.EnterPod: the state the pod had is returned
EnterPod(r, pod, targetEntryPath) ==
    [r |-> [r EXCEPT !.stack = Append(@, [Pod |-> pod, TargetEntryPath |-> targetEntryPath,
                                          ActiveEntryPath |-> <<>>]),
                     !.podStates = (pod :> resolution3PodEntered) @@ @,
                     !.entered = Append(@, <<pod, IF pod \in DOMAIN r.podStates
                                                  THEN r.podStates[pod] ELSE 0>>)],
     podState |-> IF pod \in DOMAIN r.podStates THEN r.podStates[pod] ELSE 0]

\* LeavePod leaving the pod marked as entered
LeavePod_StaysEntered(r) ==
    LET pod == r.stack[Len(r.stack)].Pod
    IN [r EXCEPT !.stack = SubSeq(@, 1, Len(@) - 1),
                 !.podStates = (pod :> resolution3PodEntered) @@ @]

\* resolution3Context.LeavePod
LeavePod(r) ==
    LET pod == r.stack[Len(r.stack)].Pod
    IN [r EXCEPT !.stack = SubSeq(@, 1, Len(@) - 1),
                 !.podStates = (pod :> resolution3PodLeft) @@ @]

\* doResolve3 never recording the entry it is at
SetActiveEntryPath_Skipped(r, activeEntryPath) == r

\* resolution3Context.SetActiveEntryPath
SetActiveEntryPath(r, activeEntryPath) ==
    [r EXCEPT !.stack[Len(r.stack)].ActiveEntryPath = activeEntryPath]

\* resolution3Context.DumpStack: the trace as a sequence of paths and separators
RECURSIVE DumpStack(_, _)
DumpStack(stack, i) ==
    IF i > Len(stack) THEN <<>>
    ELSE LET f1 == stack[i].TargetEntryPath # <<>>
             f2 == stack[i].ActiveEntryPath # <<>>
         IN (IF i >= 2 THEN << <<" ==> ">> >> ELSE <<>>)
            \o (IF f1 THEN <<stack[i].TargetEntryPath>> ELSE <<>>)
            \o (IF f1 /\ f2 THEN << <<" ... ">> >> ELSE <<>>)
            \o (IF f2 THEN <<stack[i].ActiveEntryPath>> ELSE <<>>)
            \o DumpStack(stack, i + 1)

\* AppendPod leaving pod.Prev unset
AppendPod_NoPrev(r, pod) ==
    LET prev == r.lastPod
        links1 == [r.links EXCEPT ![pod] = [Next |-> NilPod, Prev |-> NilPod]]
    IN IF prev = NilPod
       THEN [r EXCEPT !.links = links1, !.lastPod = pod, !.firstPod = pod]
       ELSE [r EXCEPT !.links = [links1 EXCEPT ![prev].Next = pod], !.lastPod = pod]

\* resolution3Context.AppendPod
AppendPod(r, pod) ==
    LET prev == r.lastPod
        links1 == [r.links EXCEPT ![pod] = [Next |-> NilPod, Prev |-> prev]]
    IN IF prev = NilPod
       THEN [r EXCEPT !.links = links1, !.lastPod = pod, !.firstPod = pod]
       ELSE [r EXCEPT !.links = [links1 EXCEPT ![prev].Next = pod], !.lastPod = pod]

(***************************************************************************)
(* sort.Slice of the pinned toolchain (Go 1.13, quickSort_func) for a      *)
(* slice of at most 12 elements: one ShellSort pass with gap 6, then an    *)
(* insertion sort, both driven by the less function of doResolve3.         *)
(***************************************************************************)
SliceSwap(s, a, b) == [s EXCEPT ![a] = s[b], ![b] = s[a]]

\* the less function with the comparison turned around
FilterLess_Ascending(pods, s, a, b) ==
    pods[s[a][1]].FilterEntries[s[a][2]].Priority
        <= pods[s[b][1]].FilterEntries[s[b][2]].Priority

\* the less function given to sort.Slice (depinj.go:379-381)
FilterLess(pods, s, a, b) ==
    pods[s[a][1]].FilterEntries[s[a][2]].Priority
        >= pods[s[b][1]].FilterEntries[s[b][2]].Priority

RECURSIVE ShellPass(_, _, _)
ShellPass(pods, s, i) ==
    IF i > Len(s) THEN s
    ELSE ShellPass(pods, IF FilterLess(pods, s, i, i - 6) THEN SliceSwap(s, i, i - 6) ELSE s,
                   i + 1)

RECURSIVE InsertionInner(_, _, _)
InsertionInner(pods, s, j) ==
    IF j > 1 /\ FilterLess(pods, s, j, j - 1)
    THEN InsertionInner(pods, SliceSwap(s, j, j - 1), j - 1)
    ELSE s

RECURSIVE InsertionSort(_, _, _)
InsertionSort(pods, s, i) ==
    IF i > Len(s) THEN s
    ELSE InsertionSort(pods, InsertionInner(pods, s, i), i + 1)

SortSlice(pods, s) ==
    IF Len(s) > 1 THEN InsertionSort(pods, ShellPass(pods, s, 7), 2) ELSE s

RECURSIVE doResolve3(_, _, _)
RECURSIVE Resolve3Imports(_, _, _)
RECURSIVE Resolve3Exports(_, _, _)
RECURSIVE Resolve3Filters(_, _, _, _)

\* doResolve3 forgetting that a pod depends on the owners of what it imports
Resolve3Imports_NoImportEdge(r, p, j) == r

\* the loop over the import entries in doResolve3
Resolve3Imports(r, p, j) ==
    IF r.err # NoErr \/ j > Len(r.pods[p[2]].ImportEntries) THEN r
    ELSE LET ie == r.pods[p[2]].ImportEntries[j]
             ee == r.pods[ie.ExportEntry[1]].ExportEntries[ie.ExportEntry[2]]
         IN Resolve3Imports(doResolve3(SetActiveEntryPath(r, ie.Path), ee.Pod, ee.Path),
                            p, j + 1)

\* Resolve3Filters forgetting that an export depends on the owners of its filters
Resolve3Filters_NoFilterEdge(r, p, j, k) == r

\* doResolve3 following the filters of the pod itself as well
IsOwnFilter_Never(fe, p) == FALSE

\* filterEntry.Pod == p: the filter belongs to the pod that exports
\* (depinj.go:384-386)
IsOwnFilter(fe, p) == fe.Pod = p

\* the loop over the (sorted) filter entries of one export entry in doResolve3
Resolve3Filters(r, p, j, k) ==
    IF r.err # NoErr \/ k > Len(r.pods[p[2]].ExportEntries[j].FilterEntries) THEN r
    ELSE LET f == r.pods[p[2]].ExportEntries[j].FilterEntries[k]
             fe == r.pods[f[1]].FilterEntries[f[2]]
         IN IF IsOwnFilter(fe, p)
            THEN Resolve3Filters(r, p, j, k + 1)
            ELSE Resolve3Filters(doResolve3(r, fe.Pod, fe.Path), p, j, k + 1)

\* the loop over the export entries in doResolve3
Resolve3Exports(r, p, j) ==
    IF r.err # NoErr \/ j > Len(r.pods[p[2]].ExportEntries) THEN r
    ELSE LET ee == r.pods[p[2]].ExportEntries[j]
             r1 == SetActiveEntryPath(r, ee.Path)
             r2 == [r1 EXCEPT !.pods[p[2]].ExportEntries[j].FilterEntries =
                                  SortSlice(r1.pods, @)]
         IN Resolve3Exports(Resolve3Filters(r2, p, j, 1), p, j + 1)

\* pod.doResolve3
doResolve3(r, p, targetEntryPath) ==
    LET e == EnterPod(r, p, targetEntryPath)
        r3 == Resolve3Exports(Resolve3Imports(e.r, p, 1), p, 1)
    IN IF e.podState = resolution3PodLeft THEN LeavePod(e.r)
       ELSE IF e.podState = resolution3PodEntered
       THEN [e.r EXCEPT !.err = Err("ErrPodCircularDependency", "stackTrace",
                                    DumpStack(e.r.stack, 1))]
       ELSE IF r3.err # NoErr THEN r3
       ELSE AppendPod(LeavePod(r3), p)

\* pod.Resolve3 for each pod: the third loop of PodPool.resolve
RECURSIVE ResolveLoop3(_, _, _)
ResolveLoop3(r, c, i) ==
    IF r.err # NoErr \/ i > Len(r.pods) THEN r
    ELSE ResolveLoop3(doResolve3(r, PodAddr(c, i), <<>>), c, i + 1)

\* PodPool.resolve on the pods held in the array of capacity c: the pods and
\* links as written by the phases, the error, and the context's first/last pod.
\* Each loop returns at once when an earlier one has failed.
Resolve(ps, lnk, c) ==
    ResolveLoop3(
        ResolveLoop2(
            ResolveLoop1([pods |-> ps, links |-> lnk, err |-> NoErr,
                          fieldType2ExportEntry |-> EmptyMap,
                          refID2ExportEntry |-> EmptyMap,
                          stack |-> <<>>, podStates |-> EmptyMap, entered |-> <<>>,
                          firstPod |-> NilPod, lastPod |-> NilPod], c, 1),
            1),
        c, 1)


(***************************************************************************)
(* The pool and the lifecycle.  A call of SetUp or TearDown runs until it  *)
(* invokes a hook of a pod; pc records which hook is running and where the *)
(* call resumes when the hook returns.  log is the history of the pool:    *)
(* one record for each call of SetUp and TearDown, with the number of pods *)
(* registered at the call and the events of the call: the hook invocations *)
(* and returns and how the call returned.                                  *)
(***************************************************************************)
VARIABLES program, pods, podsCap, links, firstPod, lastPod, pc, log, ret, calls

vars == <<program, pods, podsCap, links, firstPod, lastPod, pc, log, ret, calls>>

Idle == [at |-> "idle", call |-> "none", pod |-> NilPod, export |-> 0, filter |-> 0,
         err |-> NoErr]

Event(ev, i, j) == [ev |-> ev, pod |-> i, idx |-> j]

\* a call of SetUp or TearDown on a pool of n pods begins
LogCall(lg, op, n) == Append(lg, [op |-> op, pods |-> n, evs |-> <<>>])

\* an event of the call in progress
Logged(lg, e) == [lg EXCEPT ![Len(lg)].evs = Append(@, e)]

\* the zero PodPool
Init ==
    /\ program \in Programs
    /\ pods = <<>>
    /\ podsCap = 0
    /\ links = EmptyMap
    /\ firstPod = NilPod
    /\ lastPod = NilPod
    /\ pc = Idle
    /\ log = <<>>
    /\ ret = [op |-> "none", err |-> NoErr]
    /\ calls = 0

\* capacity of the array append allocates for n pods when the old one is full
\* (runtime growslice: doubled, 104-byte pods fill the size classes exactly)
GrowCap(c, n) == IF c = 0 THEN n ELSE 2 * c

\* pp.pods = append(pp.pods, pod): the pods move to a new array when full
AppendLinks(lnk, c, n) ==
    IF n + 1 <= c
    THEN (PodAddr(c, n + 1) :> [Next |-> NilPod, Prev |-> NilPod]) @@ lnk
    ELSE [a \in {PodAddr(GrowCap(c, n + 1), i) : i \in 1..(n + 1)} |->
             IF a[2] <= n THEN lnk[PodAddr(c, a[2])]
             ELSE [Next |-> NilPod, Prev |-> NilPod]] @@ lnk

\* PodPool.AddPod appending the pod although pod.ParseRaw failed
AddPodRejects_Appends(k) ==
    /\ pods' = Append(pods, ParseRaw(k))
    /\ ret' = [op |-> "AddPod", err |-> ParseRawError(k)]
    /\ UNCHANGED <<podsCap, links>>

\* PodPool.AddPod of a pod that does not parse: the error is returned
AddPodRejects(k) ==
    /\ ret' = [op |-> "AddPod", err |-> ParseRawError(k)]
    /\ UNCHANGED <<pods, podsCap, links>>

\* PodPool.AddPod: the pod is appended if it parses
AddPod(k) ==
    /\ k \in program
    /\ \A i \in 1..Len(pods) : pods[i].Raw # k
    /\ pc.at = "idle"
    /\ Len(pods) + calls < MaxOps
    /\ IF ParseRawError(k) # NoErr
       THEN AddPodRejects(k)
       ELSE /\ pods' = Append(pods, ParseRaw(k))
            /\ podsCap' = IF Len(pods) + 1 <= podsCap THEN podsCap
                          ELSE GrowCap(podsCap, Len(pods) + 1)
            /\ links' = AppendLinks(links, podsCap, Len(pods))
            /\ ret' = [op |-> "AddPod", err |-> NoErr]
    /\ UNCHANGED <<program, firstPod, lastPod, pc, log, calls>>

(***************************************************************************)
(* The part of a call between two hooks, on m = [pods, links, pc, log,     *)
(* ret].                                                                   *)
(***************************************************************************)
\* pod.TearDown is entered for pod p (or the walk over Prev is over): the
\* teardown hook of p is invoked
TearDownEnter(m, p, err, call) ==
    IF p = NilPod
    THEN [m EXCEPT !.pc = Idle, !.ret = [op |-> call, err |-> err],
                   !.log = Logged(@, Event(IF err = NoErr THEN "RetOK" ELSE "RetErr", 0, 0))]
    ELSE [m EXCEPT !.pc = [at |-> "TearDown", call |-> call, pod |-> p, export |-> 0,
                           filter |-> 0, err |-> err],
                   !.log = Logged(@, Event("TearDown", p[2], 0))]

\* the rollback of PodPool.SetUp dropped: the error is returned at once
RollbackFrom_Nothing(m, p, err) == TearDownEnter(m, NilPod, err, "SetUp")

\* the deferred function of PodPool.SetUp after pod.SetUp of p failed with err:
\* pod.TearDown for p.Prev, its Prev, and so on
RollbackFrom(m, p, err) == TearDownEnter(m, m.links[p].Prev, err, "SetUp")

\* the field writes of pod.TearDown after the hook (depinj.go:294-307)
\* pod.TearDown leaving the export fields as they are
ZeroFields_ExportsKept(pod) ==
    [pod EXCEPT !.ImportEntries = [j \in DOMAIN @ |-> [@[j] EXCEPT !.FieldValue = Zero]],
                !.FilterEntries = [j \in DOMAIN @ |-> [@[j] EXCEPT !.FieldValue = NilPtr]]]

ZeroFields(pod) ==
    [pod EXCEPT !.ImportEntries = [j \in DOMAIN @ |-> [@[j] EXCEPT !.FieldValue = Zero]],
                !.ExportEntries = [j \in DOMAIN @ |-> [@[j] EXCEPT !.FieldValue = Zero]],
                !.FilterEntries = [j \in DOMAIN @ |-> [@[j] EXCEPT !.FieldValue = NilPtr]]]

\* pod.SetUp without the loop over the import entries
CopyImports_Skipped(ps, i) == ps

\* the loop over the import entries in pod.SetUp (depinj.go:258-262)
CopyImports(ps, i) ==
    LET ies == ps[i].ImportEntries
    IN [ps EXCEPT ![i].ImportEntries =
           [j \in DOMAIN ies |->
               [ies[j] EXCEPT !.FieldValue =
                   ps[ies[j].ExportEntry[1]].ExportEntries[ies[j].ExportEntry[2]].FieldValue]]]

\* pod.SetUp is entered for pod p (or the walk over Next is over): the import
\* fields are assigned and the setup hook of p is invoked
PodSetUpEnter(m, p) ==
    IF p = NilPod
    THEN [m EXCEPT !.pc = Idle, !.ret = [op |-> "SetUp", err |-> NoErr],
                   !.log = Logged(@, Event("RetOK", 0, 0))]
    ELSE [m EXCEPT !.pods = CopyImports(m.pods, p[2]),
                   !.pc = [at |-> "SetUp", call |-> "SetUp", pod |-> p, export |-> 0,
                           filter |-> 0, err |-> NoErr],
                   !.log = Logged(@, Event("SetUp", p[2], 0))]

\* filterEntry.FieldValue.Set(exportEntry.FieldValue.Addr()) for the filters of
\* export entry j of pod i (depinj.go:277-279)
RECURSIVE SetFilterFields(_, _, _, _)
SetFilterFields(ps, i, j, k) ==
    IF k > Len(ps[i].ExportEntries[j].FilterEntries) THEN ps
    ELSE LET f == ps[i].ExportEntries[j].FilterEntries[k]
         IN SetFilterFields([ps EXCEPT ![f[1]].FilterEntries[f[2]].FieldValue = <<i, j>>],
                            i, j, k + 1)

\* filter k of export entry j of pod p is invoked
FilterEnter(m, p, j, k) ==
    LET f == m.pods[p[2]].ExportEntries[j].FilterEntries[k]
    IN [m EXCEPT !.pc = [at |-> "Filter", call |-> "SetUp", pod |-> p, export |-> j,
                         filter |-> k, err |-> NoErr],
                 !.log = Logged(@, Event("Filter", f[1], f[2]))]

\* pod.SetUp without the loop over the export entries: no filter is run
PodSetUpExports_NoFilters(m, p, j) == PodSetUpEnter(m, m.links[p].Next)

\* the loop over the export entries in pod.SetUp from entry j on, up to the
\* next hook; past the last entry PodPool.SetUp moves to pod.Next
RECURSIVE PodSetUpExports(_, _, _)
PodSetUpExports(m, p, j) ==
    IF j > Len(m.pods[p[2]].ExportEntries)
    THEN PodSetUpEnter(m, m.links[p].Next)
    ELSE LET m1 == [m EXCEPT !.pods = SetFilterFields(m.pods, p[2], j, 1)]
         IN IF Len(m1.pods[p[2]].ExportEntries[j].FilterEntries) = 0
            THEN PodSetUpExports(m1, p, j + 1)
            ELSE FilterEnter(m1, p, j, 1)

Machine == [pods |-> pods, links |-> links, pc |-> pc, log |-> log, ret |-> ret]

Becomes(m) ==
    /\ pods' = m.pods
    /\ links' = m.links
    /\ pc' = m.pc
    /\ log' = m.log
    /\ ret' = m.ret

\* PodPool.SetUp once pp.resolve() has returned r: the error is returned, or
\* the head and tail are stored and pod.SetUp is entered for the first pod
SetUpResolved(r) ==
    IF r.err # NoErr
    THEN /\ Becomes([pods |-> r.pods, links |-> r.links, pc |-> Idle,
                     log |-> Logged(LogCall(log, "SetUp", Len(pods)),
                                    Event("RetErr", 0, 0)),
                     ret |-> [op |-> "SetUp", err |-> r.err]])
         /\ UNCHANGED <<firstPod, lastPod>>
    ELSE /\ firstPod' = r.firstPod
         /\ lastPod' = r.lastPod
         /\ Becomes(PodSetUpEnter(
                [pods |-> r.pods, links |-> r.links, pc |-> Idle,
                 log |-> LogCall(log, "SetUp", Len(pods)),
                 ret |-> [op |-> "SetUp", err |-> NoErr]], r.firstPod))

\* PodPool.SetUp up to the first hook: resolve, then the first pod.SetUp
SetUp ==
    /\ pc.at = "idle"
    /\ Len(pods) + calls < MaxOps
    /\ calls' = calls + 1
    /\ UNCHANGED <<program, podsCap>>
    /\ SetUpResolved(Resolve(pods, links, podsCap))

\* Pod.SetUp of the pod types: the export fields are assigned
RawSetUp(pod) ==
    [pod EXCEPT !.ExportEntries =
        [j \in DOMAIN @ |->
            [@[j] EXCEPT !.FieldValue =
                IF PodTypeDef(pod.Raw).exports[j].Init = "" THEN @
                ELSE <<PodTypeDef(pod.Raw).exports[j].Init>>]]]

\* the setup hook returns: on an error the pods before p are torn down
SetUpHookReturns(ok) ==
    /\ pc.at = "SetUp"
    /\ LET p == pc.pod
           m == Machine
       IN IF ok
          THEN Becomes(PodSetUpExports(
                   [m EXCEPT !.pods[p[2]] = RawSetUp(@),
                             !.log = Logged(@, Event("SetUpRet", p[2], 0))], p, 1))
          ELSE Becomes(RollbackFrom(
                   [m EXCEPT !.log = Logged(@, Event("SetUpErr", p[2], 0))], p,
                   Wrap("SetupFailed", "pod setup failed", << <<pods[p[2]].Raw>> >>, HookError)))
    /\ UNCHANGED <<program, podsCap, firstPod, lastPod, calls>>

\* the filter method of the pod types: the value behind the filter field is
\* extended
RawFilter(ps, f) ==
    LET x == ps[f[1]].FilterEntries[f[2]].FieldValue
    IN IF PodTypeDef(ps[f[1]].Raw).filters[f[2]].Suffix = "" THEN ps
       ELSE [ps EXCEPT ![x[1]].ExportEntries[x[2]].FieldValue =
                Append(@, PodTypeDef(ps[f[1]].Raw).filters[f[2]].Suffix)]

\* pod.SetUp returning the filter's error without its deferred p.TearDown()
PodSetUpDeferred_NoTearDown(m, p, err) == RollbackFrom(m, p, err)

\* pod.SetUp returns err after Raw.SetUp succeeded: its deferred function calls
\* p.TearDown() (depinj.go:268-272), then the rollback of PodPool.SetUp runs
PodSetUpDeferred(m, p, err) == TearDownEnter(m, p, err, "SetUp")

\* a filter hook returns: on an error pod p and the pods before it are torn down
FilterHookReturns(ok) ==
    /\ pc.at = "Filter"
    /\ LET p == pc.pod
           j == pc.export
           k == pc.filter
           f == pods[p[2]].ExportEntries[j].FilterEntries[k]
           m == Machine
           m1 == [m EXCEPT !.pods = RawFilter(@, f),
                           !.log = Logged(@, Event("FilterRet", f[1], f[2]))]
       IN IF ok
          THEN IF k < Len(pods[p[2]].ExportEntries[j].FilterEntries)
               THEN Becomes(FilterEnter(m1, p, j, k + 1))
               ELSE Becomes(PodSetUpExports(m1, p, j + 1))
          ELSE Becomes(PodSetUpDeferred(
                   [m EXCEPT !.log = Logged(@, Event("FilterErr", f[1], f[2]))],
                   p,
                   Wrap("FilterFailed", "filter function failed", << <<pods[p[2]].Raw>> >>,
                       HookError)))
    /\ UNCHANGED <<program, podsCap, firstPod, lastPod, calls>>

\* the teardown hook returns: the fields of the pod are zeroed and the walk
\* moves to pod.Prev
TearDownHookReturns ==
    /\ pc.at = "TearDown"
    /\ LET p == pc.pod
           m == Machine
       IN Becomes(TearDownEnter(
              [m EXCEPT !.pods[p[2]] = ZeroFields(@),
                        !.log = Logged(@, Event("TearDownRet", p[2], 0))],
              links[p].Prev, pc.err, pc.call))
    /\ UNCHANGED <<program, podsCap, firstPod, lastPod, calls>>

\* PodPool.TearDown up to the first hook
TearDown ==
    /\ pc.at = "idle"
    /\ Len(pods) + calls < MaxOps
    /\ calls' = calls + 1
    /\ Becomes(TearDownEnter(
           [Machine EXCEPT !.log = LogCall(@, "TearDown", Len(pods))],
           lastPod, NoErr, "TearDown"))
    /\ UNCHANGED <<program, podsCap, firstPod, lastPod>>

Next ==
    \/ \E k \in PodTypes : AddPod(k)
    \/ SetUp
    \/ \E ok \in BOOLEAN : SetUpHookReturns(ok)
    \/ \E ok \in BOOLEAN : FilterHookReturns(ok)
    \/ TearDownHookReturns
    \/ TearDown

Spec == Init /\ [][Next]_vars


(***************************************************************************)
(* Vocabulary of the properties.  The dependency relation is stated on     *)
(* the declarations of the registered pods, not on what resolve computed.  *)
(***************************************************************************)
\* the ref id an entry of pod type k declares, its ref link resolved
DeclaredRefID(k, refID) ==
    IF isRefLink(refID) THEN RawResolveRefLink(k, refID).refID ELSE refID

\* the key an export entry is published under and an import or filter entry
\* asks for: the ref id if there is one, the value type otherwise
DeclaredKey(k, refID, valueType) ==
    IF DeclaredRefID(k, refID) = <<>> THEN <<"type", valueType>>
    ELSE <<"id">> \o DeclaredRefID(k, refID)

ExportKeyOf(i, j) ==
    LET e == PodTypeDef(pods[i].Raw).exports[j]
    IN DeclaredKey(pods[i].Raw, e.RefID, e.FieldType)

ImportKeyOf(i, j) ==
    LET e == PodTypeDef(pods[i].Raw).imports[j]
    IN DeclaredKey(pods[i].Raw, e.RefID, e.FieldType)

FilterKeyOf(i, j) ==
    LET e == PodTypeDef(pods[i].Raw).filters[j]
    IN DeclaredKey(pods[i].Raw, e.RefID, Elem(e.FieldType))

NumImports(i) == Len(pods[i].ImportEntries)
NumExports(i) == Len(pods[i].ExportEntries)
NumFilters(i) == Len(pods[i].FilterEntries)

\* pod i depends on pod k: an import of i is exported by k, or an export of i
\* is filtered by k, k other than i
ImportDependsOn(i, k) ==
    \E j \in 1..NumImports(i) : \E x \in 1..NumExports(k) :
        ImportKeyOf(i, j) = ExportKeyOf(k, x)

FilterDependsOn(i, k) ==
    /\ k # i
    /\ \E j \in 1..NumExports(i) : \E x \in 1..NumFilters(k) :
           ExportKeyOf(i, j) = FilterKeyOf(k, x)

DependsOn(i, k) == ImportDependsOn(i, k) \/ FilterDependsOn(i, k)

\* the dependency relation of the first n pods
Deps(n) == {d \in (1..n) \X (1..n) : DependsOn(d[1], d[2])}

\* the last call recorded in the log (in progress or returned), its events and
\* the last of them
Last == log[Len(log)]
LastEvs == log[Len(log)].evs
LastEv == LastEvs[Len(LastEvs)]

\* the last call is a SetUp of SetUpCount pods
InSetUp == Len(log) > 0 /\ Last.op = "SetUp"
SetUpCount == Last.pods

\* ... whose resolution succeeded
ResolvedOK == InSetUp /\ LastEvs[1].ev # "RetErr"

\* ... and which has returned without an error, or with the error of a hook
SetUpSucceeded == InSetUp /\ LastEv.ev = "RetOK"
SetUpHookFailed == ResolvedOK /\ LastEv.ev = "RetErr"

\* the pods of the events ev among evs, in order
PodsOf(evs, ev) ==
    LET sel == SelectSeq(evs, LAMBDA e : e.ev = ev)
    IN [n \in 1..Len(sel) |-> sel[n].pod]

SetUpSeq == PodsOf(LastEvs, "SetUp")
TearDownSeq == PodsOf(LastEvs, "TearDown")

\* the sequence of pods (slots) linked from firstPod over Next
RECURSIVE WalkNext(_, _)
WalkNext(p, fuel) ==
    IF p = NilPod \/ fuel = 0 THEN <<>>
    ELSE <<p[2]>> \o WalkNext(links[p].Next, fuel - 1)

LinkedOrder == WalkNext(firstPod, Cardinality(DOMAIN links) + 1)

Reverse(s) == [n \in 1..Len(s) |-> s[Len(s) + 1 - n]]
IsPrefix(s, t) == Len(s) <= Len(t) /\ \A n \in 1..Len(s) : s[n] = t[n]
IsPermutation(s, n) == Len(s) = n /\ \A i \in 1..n : \E x \in 1..n : s[x] = i
Pos(s, i) == CHOOSE x \in 1..Len(s) : s[x] = i

\* C1: when the resolution of SetUp succeeds, the setup order (the linked
\* sequence, which the setup hooks follow) holds every registered pod once and
\* puts every pod after each pod it depends on: the owner of the export each of
\* its imports resolves to and the owner of every filter on its exports
C1_TopologicalOrder ==
    ResolvedOK =>
        LET order == LinkedOrder
            hooks == SetUpSeq
        IN /\ IsPermutation(order, SetUpCount)
           /\ IsPrefix(hooks, order)
           /\ SetUpSucceeded => hooks = order
           /\ \A d \in Deps(SetUpCount) : Pos(order, d[2]) < Pos(order, d[1])

\* three pods set up, an import dependency and a filter dependency, both on
\* pods registered after the pod that depends on them
C1_Witness ==
    /\ SetUpSucceeded
    /\ SetUpCount = 3
    /\ Len(SetUpSeq) = 3
    /\ \E i, k \in 1..3 : i < k /\ ImportDependsOn(i, k)
    /\ \E i, k \in 1..3 : i < k /\ FilterDependsOn(i, k)


\* the pods left of set when the pods that depend on none of those left are
\* taken away, again and again: each pod left depends on a pod left
RECURSIVE Peel(_, _)
Peel(set, rel) ==
    LET rest == {i \in set : \E d \in rel : d[1] = i /\ d[2] \in set}
    IN IF rest = set THEN set ELSE Peel(rest, rel)

\* the dependency relation of the first n pods has a cycle
HasCycle(n) == Peel(1..n, Deps(n)) # {}

BadEntryKinds == {"ErrBadImportEntry", "ErrBadExportEntry", "ErrBadFilterEntry"}

\* C2: when phases 1 and 2 of a SetUp succeed, the call fails with
\* ErrPodCircularDependency if and only if the dependency relation of the
\* registered pods (an import of the pod's own export included, the pod's own
\* filters excluded) has a cycle
C2_CircularIffCycle ==
    (ret.op = "SetUp" /\ ret.err.Kind \notin BadEntryKinds) =>
        (ret.err.Kind = "ErrPodCircularDependency" <=> HasCycle(Len(pods)))

\* SetUp of three pods failed on a cycle through two of them
C2_Witness ==
    /\ pc.at = "idle"
    /\ ret.op = "SetUp"
    /\ ret.err.Kind = "ErrPodCircularDependency"
    /\ Len(pods) = 3
    /\ \E i, k \in 1..3 : i # k /\ DependsOn(i, k) /\ DependsOn(k, i)


\* the values of the import, export and filter fields of every pod
FieldValues ==
    [i \in 1..Len(pods) |->
        [Imports |-> [j \in DOMAIN pods[i].ImportEntries |-> pods[i].ImportEntries[j].FieldValue],
         Exports |-> [j \in DOMAIN pods[i].ExportEntries |-> pods[i].ExportEntries[j].FieldValue],
         Filters |-> [j \in DOMAIN pods[i].FilterEntries |-> pods[i].FilterEntries[j].FieldValue]]]

SomeFieldSet ==
    \E i \in 1..Len(pods) :
        \/ \E j \in DOMAIN pods[i].ImportEntries : pods[i].ImportEntries[j].FieldValue # Zero
        \/ \E j \in DOMAIN pods[i].ExportEntries : pods[i].ExportEntries[j].FieldValue # Zero

\* C3: a SetUp call that returns a resolution error (bad import, export or
\* filter entry, circular dependency) has invoked no setup, filter or teardown
\* hook and has left every import, export and filter field as it was
C3_ResolutionErrorNoEffect ==
    [][(/\ pc.at = "idle"
        /\ calls' = calls + 1
        /\ pc'.at = "idle"
        /\ ret'.op = "SetUp"
        /\ ret'.err.Kind \in ResolutionErrKinds)
       => /\ FieldValues' = FieldValues
          /\ log' = Append(log, [op |-> "SetUp", pods |-> Len(pods),
                                 evs |-> <<Event("RetErr", 0, 0)>>])]_vars

\* SetUp returned a circular dependency while fields of the pods were set
C3_Witness ==
    /\ pc.at = "idle"
    /\ ret.op = "SetUp"
    /\ ret.err.Kind = "ErrPodCircularDependency"
    /\ SomeFieldSet


\* a sequence without its elements equal to x
Without(sq, x) == SelectSeq(sq, LAMBDA y : y # x)

\* in a SetUp that a hook failed: the pod whose pod.SetUp failed, the pods whose
\* pod.SetUp had returned before, where the hook failed
FailingPod == SetUpSeq[Len(SetUpSeq)]
Completed == SubSeq(SetUpSeq, 1, Len(SetUpSeq) - 1)
FailIndex == CHOOSE n \in DOMAIN LastEvs : LastEvs[n].ev \in {"SetUpErr", "FilterErr"}

\* C4: when a hook fails while the k-th pod of the setup order is set up, SetUp
\* tears down every pod that had completed its setup, in reverse completion
\* order, before it returns the error, and invokes neither a setup hook nor a
\* filter hook after the failure, nor any hook of a pod later in the order
C4_RollbackOnHookFailure ==
    SetUpHookFailed =>
        LET evs == LastEvs
            hooks == SetUpSeq
            fail == FailIndex
            order == LinkedOrder
        IN /\ Without(TearDownSeq, hooks[Len(hooks)])
                  = Reverse(SubSeq(hooks, 1, Len(hooks) - 1))
           /\ \A n \in DOMAIN evs :
                  evs[n].ev = "TearDown" =>
                      /\ n > fail
                      /\ n < Len(evs)
                      /\ evs[n + 1] = Event("TearDownRet", evs[n].pod, 0)
           /\ \A n \in DOMAIN evs :
                  n > fail => evs[n].ev \in {"TearDown", "TearDownRet", "RetErr"}
           /\ \A n \in DOMAIN evs :
                  evs[n].ev \in {"SetUp", "Filter"} =>
                      Pos(order, evs[n].pod) <= Len(hooks)

\* a hook failed on the third pod and the two pods set up before it were torn
\* down, the second first
C4_Witness ==
    /\ SetUpHookFailed
    /\ Len(Completed) = 2
    /\ Without(TearDownSeq, FailingPod) = <<Completed[2], Completed[1]>>

\* the call before the last one
Prev == log[Len(log) - 1]

\* the last call is a TearDown that returned and the call before it a SetUp
\* that succeeded
TornDownAfterSetUp ==
    /\ Len(log) >= 2
    /\ Prev.op = "SetUp"
    /\ Prev.evs[Len(Prev.evs)].ev = "RetOK"
    /\ Last.op = "TearDown"
    /\ LastEv.ev = "RetOK"

PrevSetUpSeq == PodsOf(Prev.evs, "SetUp")

\* C5: after a successful SetUp, TearDown invokes the teardown hook of every
\* pod exactly once, in the reverse of the order of the setup hooks
C5_TearDownReversesSetUp ==
    TornDownAfterSetUp =>
        LET downs == TearDownSeq
        IN /\ downs = Reverse(PrevSetUpSeq)
           /\ IsPermutation(downs, Prev.pods)

\* three pods, set up in another order than registered, were torn down
C5_Witness ==
    /\ TornDownAfterSetUp
    /\ Len(TearDownSeq) = 3
    /\ PrevSetUpSeq # <<1, 2, 3>>

\* the number of pods that were registered when the last call was made
Registered == IF Len(log) > 0 THEN Last.pods ELSE Len(pods)

ExportEntriesOf(n) == UNION {{<<k, x>> : x \in 1..NumExports(k)} : k \in 1..n}
ImportEntriesOf(n) == UNION {{<<k, x>> : x \in 1..NumImports(k)} : k \in 1..n}
FilterEntriesOf(n) == UNION {{<<k, x>> : x \in 1..NumFilters(k)} : k \in 1..n}

\* the export entry <<k, x>> registered under the key of import j of pod i
ExporterOf(i, j) ==
    CHOOSE e \in ExportEntriesOf(Registered) : ExportKeyOf(e[1], e[2]) = ImportKeyOf(i, j)

\* the filter entries declared on the key of export entry e
FiltersOn(e) ==
    {f \in FilterEntriesOf(Registered) : FilterKeyOf(f[1], f[2]) = ExportKeyOf(e[1], e[2])}

\* the event e is logged in the last call
InLastCall(e) == \E n \in DOMAIN LastEvs : LastEvs[n] = e

\* C6: while the setup hook of a pod runs, each import field of the pod holds
\* the current value of the export field it resolved to, and the setup hook of
\* the owner of that export has returned in the same SetUp call
C6_ImportsReadyAtSetUp ==
    pc.at = "SetUp" =>
        \A j \in 1..NumImports(pc.pod[2]) :
            LET e == ExporterOf(pc.pod[2], j)
            IN /\ pods[pc.pod[2]].ImportEntries[j].FieldValue
                      = pods[e[1]].ExportEntries[e[2]].FieldValue
               /\ InLastCall(Event("SetUpRet", e[1], 0))

\* a setup hook runs with an import field holding a value
C6_Witness ==
    /\ pc.at = "SetUp"
    /\ NumImports(pc.pod[2]) > 0
    /\ pods[pc.pod[2]].ImportEntries[1].FieldValue # Zero

RawTypes == {pods[i].Raw : i \in 1..Len(pods)}

Tutorial2 == Len(pods) = 3 /\ RawTypes = {"StrangerA", "StrangerB", "Hijacker"}

\* C7: while the setup hook of a pod runs, every filter attached to an export
\* the pod imports has returned in the same SetUp call, so the import holds the
\* filtered value: with StrangerA, StrangerB and Hijacker of the README,
\* StrangerB reads "Hi! Jack!"
C7_FiltersBeforeImport ==
    pc.at = "SetUp" =>
        /\ \A j \in 1..NumImports(pc.pod[2]) :
               \A f \in FiltersOn(ExporterOf(pc.pod[2], j)) :
                   InLastCall(Event("FilterRet", f[1], f[2]))
        /\ (Tutorial2 /\ pods[pc.pod[2]].Raw = "StrangerB") =>
               pods[pc.pod[2]].ImportEntries[1].FieldValue = <<"Hi!", " Jack!">>

\* the setup hook of StrangerB runs in the pool of tutorial 2, StrangerA
\* registered last
C7_Witness ==
    /\ pc.at = "SetUp"
    /\ Tutorial2
    /\ pods[pc.pod[2]].Raw = "StrangerB"
    /\ pods[3].Raw = "StrangerA"

\* the imports without ref id of the pods of the last SetUp
ByTypeImports ==
    {b \in ImportEntriesOf(SetUpCount) : ImportKeyOf(b[1], b[2])[1] = "type"}

InitOf(e) == PodTypeDef(pods[e[1]].Raw).exports[e[2]].Init

\* the suffixes the filters on export e appended during the last call, in order
SuffixesOn(e) ==
    LET on == FiltersOn(e)
        sel == SelectSeq(LastEvs, LAMBDA x : /\ x.ev = "FilterRet"
                                             /\ <<x.pod, x.idx>> \in on
                                             /\ PodTypeDef(pods[x.pod].Raw).filters[x.idx].Suffix # "")
    IN [n \in 1..Len(sel) |-> PodTypeDef(pods[sel[n].pod].Raw).filters[sel[n].idx].Suffix]

\* C8 as stated: after setup an import without ref id holds the value the
\* export without ref id had when the setup hook of its owner returned, before
\* any filter ran
C8_Original ==
    SetUpSucceeded =>
        \A b \in ByTypeImports :
            pods[b[1]].ImportEntries[b[2]].FieldValue = <<InitOf(ExporterOf(b[1], b[2]))>>

\* C8 amended: after setup an import without ref id holds the value the export
\* without ref id has after the setup hook of its owner returned and every
\* filter attached to the export ran; it is the value at the return of the
\* setup hook when no filter is attached
C8_ImportHoldsFilteredExport ==
    SetUpSucceeded =>
        \A b \in ByTypeImports :
            LET e == ExporterOf(b[1], b[2])
            IN pods[b[1]].ImportEntries[b[2]].FieldValue = <<InitOf(e)>> \o SuffixesOn(e)

\* SetUp succeeded with an import by type of an export by type that a filter
\* changed, the exporter registered after the importer
C8_Witness ==
    /\ SetUpSucceeded
    /\ \E b \in ByTypeImports :
           /\ FiltersOn(ExporterOf(b[1], b[2])) # {}
           /\ ExporterOf(b[1], b[2])[1] > b[1]
           /\ Len(pods[b[1]].ImportEntries[b[2]].FieldValue) = 2

FilterPriority(ev) == PodTypeDef(pods[ev.pod].Raw).filters[ev.idx].Priority

\* the filter invocations of call c, in order
FilterCalls(c) == SelectSeq(log[c].evs, LAMBDA e : e.ev = "Filter")

\* x and y are invocations of two filters of one export
SameExportFilters(x, y) == FilterKeyOf(x.pod, x.idx) = FilterKeyOf(y.pod, y.idx)

\* C9: the filters of one export are invoked by descending priority: never a
\* filter before one of strictly higher priority, whatever the registration
\* order
C9_DescendingPriority ==
    \A c \in DOMAIN log :
        LET fs == FilterCalls(c)
        IN \A a, b \in DOMAIN fs :
               (a < b /\ SameExportFilters(fs[a], fs[b])) =>
                   FilterPriority(fs[a]) >= FilterPriority(fs[b])

\* a filter ran before a filter of lower priority whose pod was registered first
C9_Witness ==
    \E c \in DOMAIN log :
        LET fs == FilterCalls(c)
        IN \E a, b \in DOMAIN fs :
               /\ a < b
               /\ SameExportFilters(fs[a], fs[b])
               /\ FilterPriority(fs[a]) > FilterPriority(fs[b])
               /\ fs[a].pod > fs[b].pod

\* C10: filters of equal priority on one export are invoked in discovery order
\* (earlier registered pod first, then earlier declared field), on every SetUp
C10_StableFilterOrder ==
    \A c \in DOMAIN log :
        LET fs == FilterCalls(c)
        IN \A a, b \in DOMAIN fs :
               (/\ a < b
                /\ SameExportFilters(fs[a], fs[b])
                /\ FilterPriority(fs[a]) = FilterPriority(fs[b])) =>
                   \/ fs[a].pod < fs[b].pod
                   \/ fs[a].pod = fs[b].pod /\ fs[a].idx < fs[b].idx

\* every import, export and filter field of every pod holds its zero value
AllFieldsZero ==
    \A i \in 1..Len(pods) :
        /\ \A j \in DOMAIN pods[i].ImportEntries : pods[i].ImportEntries[j].FieldValue = Zero
        /\ \A j \in DOMAIN pods[i].ExportEntries : pods[i].ExportEntries[j].FieldValue = Zero
        /\ \A j \in DOMAIN pods[i].FilterEntries : pods[i].FilterEntries[j].FieldValue = NilPtr

\* call c of the log is a SetUp that returned success
SucceededAt(c) == log[c].op = "SetUp" /\ log[c].evs[Len(log[c].evs)].ev = "RetOK"

\* a hook of the last call returned an error
HookFailed == \E n \in DOMAIN LastEvs : LastEvs[n].ev \in {"SetUpErr", "FilterErr"}

\* the last call is a SetUp on the pool that an earlier SetUp set up and a
\* TearDown then tore down
SetUpAgain ==
    /\ Len(log) >= 3
    /\ Last.op = "SetUp"
    /\ Prev.op = "TearDown"
    /\ SucceededAt(Len(log) - 2)
    /\ log[Len(log) - 2].pods = Last.pods

\* C11: on a pool whose wiring is valid and acyclic, SetUp and TearDown can be
\* repeated: after the TearDown that follows a successful SetUp every import,
\* export and filter field holds its zero value, and the next SetUp on the
\* same pool resolves again and, no hook failing, returns success
C11_SetUpTearDownRepeatable ==
    /\ TornDownAfterSetUp => AllFieldsZero
    /\ SetUpAgain =>
           /\ ResolvedOK
           /\ (pc.at = "idle" /\ ~HookFailed) => SetUpSucceeded

\* a second SetUp succeeded on a pool of an exporter and its importer after a
\* SetUp and a TearDown
C11_Witness ==
    /\ SetUpAgain
    /\ SetUpSucceeded
    /\ Last.pods = 2
    /\ \E i, k \in 1..2 : DependsOn(i, k)
    /\ SomeFieldSet

\* call c of the log is a SetUp that returned an error
FailedAt(c) == log[c].op = "SetUp" /\ log[c].evs[Len(log[c].evs)].ev = "RetErr"

\* the last two calls are SetUp calls on one pool, the first of them failed
\* and the second has returned
Retried ==
    /\ Len(log) >= 2
    /\ pc.at = "idle"
    /\ Last.op = "SetUp"
    /\ FailedAt(Len(log) - 1)
    /\ Prev.pods = Last.pods

\* the invocations of the filters with key k during call c, in order
FilterCallsOn(c, k) ==
    SelectSeq(log[c].evs, LAMBDA e : e.ev = "Filter" /\ FilterKeyOf(e.pod, e.idx) = k)

\* one of the sequences continues the other
Agree(s, t) == IsPrefix(s, t) \/ IsPrefix(t, s)

\* C12: a SetUp on an unchanged pool after a failed SetUp repeats the failed
\* attempt: the setup hooks are invoked in the same order and so are the
\* filters of every export, as far as both attempts went
C12_RetryRepeatsAttempt ==
    Retried =>
        /\ Agree(PrevSetUpSeq, SetUpSeq)
        /\ \A n \in DOMAIN Prev.evs :
               Prev.evs[n].ev = "Filter" =>
                   Agree(FilterCallsOn(Len(log) - 1, FilterKeyOf(Prev.evs[n].pod, Prev.evs[n].idx)),
                         FilterCallsOn(Len(log), FilterKeyOf(Prev.evs[n].pod, Prev.evs[n].idx)))

\* C13: a SetUp whose resolution fails, called right after a SetUp whose
\* resolution failed on the same pool, returns the error of the first call:
\* the same kind with the same entry paths and the same cycle trace
C13_SameResolutionErrorTwice ==
    [][(/\ pc.at = "idle"
        /\ ret.op = "SetUp"
        /\ ret.err.Kind \in ResolutionErrKinds
        /\ calls' = calls + 1
        /\ pc'.at = "idle"
        /\ ret'.op = "SetUp"
        /\ ret'.err.Kind \in ResolutionErrKinds)
       => ret'.err = ret.err]_vars

\* C14: whatever the number of SetUp calls, no filter entry is twice in the
\* filter list of an export, and no filter hook is invoked twice within one
\* SetUp call
C14_FilterBoundOnce ==
    /\ \A i \in 1..Len(pods) :
           \A j \in DOMAIN pods[i].ExportEntries :
               LET fs == pods[i].ExportEntries[j].FilterEntries
               IN \A a, b \in DOMAIN fs : fs[a] = fs[b] => a = b
    /\ Len(log) > 0 =>
           LET fc == FilterCalls(Len(log))
           IN \A a, b \in DOMAIN fc : fc[a] = fc[b] => a = b

\* the third SetUp call on a pool invoked both filters of an export
C14_Witness ==
    /\ Len(log) = 3
    /\ \A c \in 1..3 : log[c].op = "SetUp"
    /\ \E i \in 1..Len(pods) :
           \E j \in DOMAIN pods[i].ExportEntries :
               Len(pods[i].ExportEntries[j].FilterEntries) = 2
    /\ Len(FilterCalls(3)) = 2

\* no SetUp call before call c of the log returned success
NoSuccessBefore(c) == \A d \in 1..(c - 1) : ~SucceededAt(d)

\* C15: a TearDown call on a pool for which no SetUp call has returned
\* success (none was made, or each failed in resolution or in a hook) invokes
\* no teardown hook
C15_TearDownWithoutSetUpNoOp ==
    (Len(log) > 0 /\ Last.op = "TearDown" /\ NoSuccessBefore(Len(log))) =>
        \A n \in DOMAIN LastEvs : LastEvs[n].ev # "TearDown"

\* C16: the head and the tail of the setup order are set only by a SetUp call
\* that succeeds, a failed call (in resolution or in a hook) keeps their
\* prior values: as long as no SetUp call has returned success, both are nil
C16_HeadTailOnlyOnSuccess ==
    (pc.at = "idle" /\ NoSuccessBefore(Len(log) + 1)) =>
        firstPod = NilPod /\ lastPod = NilPod

\* the declaration of an entry and the type of its field
DeclaredImport(b) == PodTypeDef(pods[b[1]].Raw).imports[b[2]]
DeclaredExport(e) == PodTypeDef(pods[e[1]].Raw).exports[e[2]]
DeclaredFilter(f) == PodTypeDef(pods[f[1]].Raw).filters[f[2]]

\* every ref link of the first n pods resolves
LinksResolve(n) ==
    \A i \in 1..n :
        LET d == PodTypeDef(pods[i].Raw)
        IN \A refID \in {d.imports[j].RefID : j \in DOMAIN d.imports}
                        \cup {d.exports[j].RefID : j \in DOMAIN d.exports}
                        \cup {d.filters[j].RefID : j \in DOMAIN d.filters} :
               isRefLink(refID) => RawResolveRefLink(pods[i].Raw, refID).ok

\* no two export entries of the first n pods are declared under one key
KeysDistinct(n) ==
    \A e, x \in ExportEntriesOf(n) :
        ExportKeyOf(e[1], e[2]) = ExportKeyOf(x[1], x[2]) => e = x

\* phase 1 passes on the first n pods
Phase1Passes(n) == LinksResolve(n) /\ KeysDistinct(n)

\* the export entries of the first n pods declared under key k
ExportsUnder(n, k) == {e \in ExportEntriesOf(n) : ExportKeyOf(e[1], e[2]) = k}

\* the import entries of the first n pods that no export serves: none is
\* declared under their key, or the one declared under their ref id has
\* another type
UnservedImports(n) ==
    {b \in ImportEntriesOf(n) :
        LET k == ImportKeyOf(b[1], b[2])
        IN \/ ExportsUnder(n, k) = {}
           \/ /\ k[1] = "id"
              /\ \E e \in ExportsUnder(n, k) :
                     DeclaredExport(e).FieldType # DeclaredImport(b).FieldType}

\* the filter entries of the first n pods that no export serves
UnservedFilters(n) ==
    {f \in FilterEntriesOf(n) :
        LET k == FilterKeyOf(f[1], f[2])
        IN \/ ExportsUnder(n, k) = {}
           \/ /\ k[1] = "id"
              /\ \E e \in ExportsUnder(n, k) :
                     PtrTo(DeclaredExport(e).FieldType) # DeclaredFilter(f).FieldType}

\* the export entries of the first n pods whose filter list holds filter f
ListsHolding(n, f) ==
    {e \in ExportEntriesOf(n) :
        \E x \in DOMAIN pods[e[1]].ExportEntries[e[2]].FilterEntries :
            pods[e[1]].ExportEntries[e[2]].FilterEntries[x] = f}

\* C17: when resolution succeeds every import entry is bound to the one
\* export entry declared under its key, of its type, and every filter entry
\* is in the filter list of exactly one export entry, the one declared under
\* its key, whose type is the type the filter field points to; when phase 1
\* passes and an import or filter entry has no export under its key, or one
\* of another type under its ref id, SetUp returns ErrBadImportEntry or
\* ErrBadFilterEntry according to the role of the entry it names
C17_NoDanglingEntry ==
    /\ ResolvedOK =>
           /\ \A b \in ImportEntriesOf(Last.pods) :
                  /\ ExportsUnder(Last.pods, ImportKeyOf(b[1], b[2])) =
                         {pods[b[1]].ImportEntries[b[2]].ExportEntry}
                  /\ DeclaredExport(pods[b[1]].ImportEntries[b[2]].ExportEntry).FieldType =
                         DeclaredImport(b).FieldType
           /\ \A f \in FilterEntriesOf(Last.pods) :
                  /\ ListsHolding(Last.pods, f) = ExportsUnder(Last.pods, FilterKeyOf(f[1], f[2]))
                  /\ Cardinality(ListsHolding(Last.pods, f)) = 1
                  /\ \A e \in ListsHolding(Last.pods, f) :
                         PtrTo(DeclaredExport(e).FieldType) = DeclaredFilter(f).FieldType
    /\ (pc.at = "idle" /\ ret.op = "SetUp" /\ Phase1Passes(Len(pods))) =>
           IF UnservedImports(Len(pods)) \cup UnservedFilters(Len(pods)) = {}
           THEN ret.err.Kind \notin BadEntryKinds
           ELSE \/ /\ ret.err.Kind = "ErrBadImportEntry"
                   /\ \E b \in UnservedImports(Len(pods)) :
                          ret.err.Msg[2] = pods[b[1]].ImportEntries[b[2]].Path
                \/ /\ ret.err.Kind = "ErrBadFilterEntry"
                   /\ \E f \in UnservedFilters(Len(pods)) :
                          ret.err.Msg[2] = pods[f[1]].FilterEntries[f[2]].Path

\* SetUp returned ErrBadFilterEntry for a filter on the ref id of an export of
\* another type, in a pool that holds an import on that ref id too
C17_Witness ==
    /\ pc.at = "idle"
    /\ ret.op = "SetUp"
    /\ ret.err.Kind = "ErrBadFilterEntry"
    /\ ret.err.Msg[1] = <<"field type mismatch">>
    /\ Phase1Passes(Len(pods))
    /\ UnservedFilters(Len(pods)) # {}
    /\ UnservedImports(Len(pods)) # {}

\* the ref id of an entry after its ref link was resolved
ImportRefID(b) == pods[b[1]].ImportEntries[b[2]].RefID
ExportRefID(e) == pods[e[1]].ExportEntries[e[2]].RefID
FilterRefID(f) == pods[f[1]].FilterEntries[f[2]].RefID

\* the export entries of the first n pods with path p
ExportsAt(n, p) == {e \in ExportEntriesOf(n) : pods[e[1]].ExportEntries[e[2]].Path = p}

\* C18: an export is registered under its ref id or, having none, under its
\* field type: when resolution succeeds an import or filter entry without
\* ref id is bound to an export without ref id and one with a ref id to an
\* export with a ref id, and SetUp reports two exports as duplicates only
\* when both have a ref id or both have none
C18_IdOrTypeNeverBoth ==
    /\ ResolvedOK =>
           /\ \A b \in ImportEntriesOf(Last.pods) :
                  ImportRefID(b) = <<>> <=>
                      ExportRefID(pods[b[1]].ImportEntries[b[2]].ExportEntry) = <<>>
           /\ \A e \in ExportEntriesOf(Last.pods) :
                  \A x \in DOMAIN pods[e[1]].ExportEntries[e[2]].FilterEntries :
                      FilterRefID(pods[e[1]].ExportEntries[e[2]].FilterEntries[x]) = <<>> <=>
                          ExportRefID(e) = <<>>
    /\ (/\ pc.at = "idle"
        /\ ret.op = "SetUp"
        /\ ret.err.Kind = "ErrBadExportEntry"
        /\ ret.err.Msg[1] \in {<<"duplicate field type">>, <<"duplicate ref id">>}) =>
           \A e \in ExportsAt(Len(pods), ret.err.Msg[2]) :
               \A x \in ExportsAt(Len(pods), ret.err.Msg[3]) :
                   ExportRefID(e) = <<>> <=> ExportRefID(x) = <<>>

\* resolution succeeded on a pool with an export with a ref id and an export
\* without ref id of one type, and an import bound to the export with the
\* ref id
C18_Witness ==
    /\ ResolvedOK
    /\ \E e, x \in ExportEntriesOf(Last.pods) :
           /\ ExportRefID(e) = <<>>
           /\ ExportRefID(x) # <<>>
           /\ DeclaredExport(e).FieldType = DeclaredExport(x).FieldType
           /\ \E b \in ImportEntriesOf(Last.pods) :
                  pods[b[1]].ImportEntries[b[2]].ExportEntry = x

\* export entry x is registered before export entry e: its pod is added
\* first, or it is an earlier field of one pod
RegisteredBefore(x, e) == x[1] < e[1] \/ (x[1] = e[1] /\ x[2] < e[2])

\* C19: when two export entries of the pool are declared under one ref id,
\* or without ref id under one field type, and no ref link fails first,
\* SetUp returns ErrBadExportEntry for a duplicate, naming an export entry as
\* offending and an export entry registered before it under the same key as
\* conflicting
C19_DuplicateExportRejected ==
    (/\ pc.at = "idle"
     /\ ret.op = "SetUp"
     /\ LinksResolve(Len(pods))
     /\ ~KeysDistinct(Len(pods))) =>
        /\ ret.err.Kind = "ErrBadExportEntry"
        /\ \E e \in ExportsAt(Len(pods), ret.err.Msg[2]) :
               \E x \in ExportsAt(Len(pods), ret.err.Msg[3]) :
                   /\ RegisteredBefore(x, e)
                   /\ ExportKeyOf(e[1], e[2]) = ExportKeyOf(x[1], x[2])
                   /\ ret.err.Msg[1] = IF ExportKeyOf(e[1], e[2])[1] = "id"
                                       THEN <<"duplicate ref id">>
                                       ELSE <<"duplicate field type">>

\* SetUp rejected the export of the third pod, of the field type of the export
\* of the first pod, both without ref id
C19_Witness ==
    /\ pc.at = "idle"
    /\ ret.op = "SetUp"
    /\ ret.err.Kind = "ErrBadExportEntry"
    /\ ret.err.Msg[1] = <<"duplicate field type">>
    /\ Len(pods) = 3
    /\ ExportsAt(3, ret.err.Msg[2]) = {<<3, 1>>}
    /\ ExportsAt(3, ret.err.Msg[3]) = {<<1, 1>>}

\* the ref link of declaration d of pod type k does not resolve
Unresolvable(k, d) == isRefLink(d.RefID) /\ ~RawResolveRefLink(k, d.RefID).ok

\* the error err names entry path p with ref link l as unresolvable
NamesLink(err, kind, p, l) ==
    /\ err.Kind = kind
    /\ err.Msg = << <<"unresolvable ref link">>, p, l >>

\* C20: when a ref link of an entry does not resolve, and no duplicate export
\* fails first, SetUp returns the error of the role of the entry
\* (ErrBadImportEntry, ErrBadExportEntry, ErrBadFilterEntry) naming the entry
\* and the link; when resolution succeeds every ref link is replaced by the
\* ref id its pod returned, and that ref id is the one of the export an import
\* is bound to and of the export whose filter list holds a filter
C20_RefLinkResolution ==
    /\ (/\ pc.at = "idle"
        /\ ret.op = "SetUp"
        /\ KeysDistinct(Len(pods))
        /\ ~LinksResolve(Len(pods))) =>
           \/ \E b \in ImportEntriesOf(Len(pods)) :
                  /\ Unresolvable(pods[b[1]].Raw, DeclaredImport(b))
                  /\ NamesLink(ret.err, "ErrBadImportEntry",
                               pods[b[1]].ImportEntries[b[2]].Path, DeclaredImport(b).RefID)
           \/ \E e \in ExportEntriesOf(Len(pods)) :
                  /\ Unresolvable(pods[e[1]].Raw, DeclaredExport(e))
                  /\ NamesLink(ret.err, "ErrBadExportEntry",
                               pods[e[1]].ExportEntries[e[2]].Path, DeclaredExport(e).RefID)
           \/ \E f \in FilterEntriesOf(Len(pods)) :
                  /\ Unresolvable(pods[f[1]].Raw, DeclaredFilter(f))
                  /\ NamesLink(ret.err, "ErrBadFilterEntry",
                               pods[f[1]].FilterEntries[f[2]].Path, DeclaredFilter(f).RefID)
    /\ ResolvedOK =>
           /\ \A b \in ImportEntriesOf(Last.pods) :
                  /\ ImportRefID(b) = DeclaredRefID(pods[b[1]].Raw, DeclaredImport(b).RefID)
                  /\ ImportRefID(b) # <<>> =>
                         ExportRefID(pods[b[1]].ImportEntries[b[2]].ExportEntry) = ImportRefID(b)
           /\ \A e \in ExportEntriesOf(Last.pods) :
                  /\ ExportRefID(e) = DeclaredRefID(pods[e[1]].Raw, DeclaredExport(e).RefID)
                  /\ \A x \in DOMAIN pods[e[1]].ExportEntries[e[2]].FilterEntries :
                         LET f == pods[e[1]].ExportEntries[e[2]].FilterEntries[x]
                         IN /\ FilterRefID(f) = DeclaredRefID(pods[f[1]].Raw, DeclaredFilter(f).RefID)
                            /\ FilterRefID(f) # <<>> => ExportRefID(e) = FilterRefID(f)

\* resolution succeeded on a pool where an export, an import bound to it and a
\* filter in its filter list are all declared with a ref link
C20_Witness ==
    /\ ResolvedOK
    /\ \E e \in ExportEntriesOf(Last.pods) :
           /\ isRefLink(DeclaredExport(e).RefID)
           /\ \E b \in ImportEntriesOf(Last.pods) :
                  /\ isRefLink(DeclaredImport(b).RefID)
                  /\ pods[b[1]].ImportEntries[b[2]].ExportEntry = e
           /\ \E f \in FilterEntriesOf(Last.pods) :
                  /\ isRefLink(DeclaredFilter(f).RefID)
                  /\ e \in ListsHolding(Last.pods, f)

\* the last call is a SetUp that passed resolution and has returned, and the
\* pool is as it was when it returned
SetUpReturned == ResolvedOK /\ pc.at = "idle" /\ ret.op = "SetUp"

\* C21: a SetUp that passed resolution returns an error if and only if a
\* setup or filter hook returned one; no hook is invoked after the first
\* hook that fails, and the error returned wraps the error of that hook
C21_HookErrorWrapped ==
    SetUpReturned =>
        /\ ret.err # NoErr <=> HookFailed
        /\ HookFailed =>
               /\ \A n \in DOMAIN LastEvs :
                      n > FailIndex => LastEvs[n].ev \notin {"SetUp", "Filter", "SetUpErr", "FilterErr"}
               /\ IsError(ret.err, HookError)

\* SetUp returned the error of a filter hook that failed after another filter
\* hook of the call had succeeded
C21_Witness ==
    /\ SetUpReturned
    /\ HookFailed
    /\ LastEvs[FailIndex].ev = "FilterErr"
    /\ \E n \in 1..FailIndex : LastEvs[n].ev = "FilterRet"
    /\ IsError(ret.err, HookError)

\* the setup hook of pod i returned success before event n of the last call
SetUpReturnedBefore(i, n) ==
    \E m \in 1..(n - 1) : LastEvs[m] = Event("SetUpRet", i, 0)

\* C22: a filter hook is invoked only after the setup hook of the pod that
\* owns the filter has returned success in the same call, and after the setup
\* hook of the pod that owns the export; a filter on an export of its own pod
\* included
C22_FilterAfterOwnSetUp ==
    Len(log) > 0 =>
        \A n \in DOMAIN LastEvs :
            LastEvs[n].ev = "Filter" =>
                /\ SetUpReturnedBefore(LastEvs[n].pod, n)
                /\ \A e \in ExportsUnder(Last.pods, FilterKeyOf(LastEvs[n].pod, LastEvs[n].idx)) :
                       SetUpReturnedBefore(e[1], n)

\* a filter hook was invoked whose pod was registered after the pod of the
\* export
C22_Witness ==
    /\ Len(log) > 0
    /\ \E n \in DOMAIN LastEvs :
           /\ LastEvs[n].ev = "Filter"
           /\ \E e \in ExportsUnder(Last.pods, FilterKeyOf(LastEvs[n].pod, LastEvs[n].idx)) :
                  e[1] < LastEvs[n].pod

\* the state of the pool that AddPod, SetUp and TearDown read
PoolState == <<pods, podsCap, links, firstPod, lastPod, pc, log, calls>>

\* C23: an AddPod call that returns an error leaves the registered pods, and
\* everything else later AddPod, SetUp and TearDown calls read, as they were
C23_FailedAddPodNoEffect ==
    [][(ret' # ret /\ ret'.op = "AddPod" /\ ret'.err # NoErr)
       => PoolState' = PoolState]_vars

\* AddPod returned an error on a pool of two pods that a SetUp had set up
C23_Witness ==
    /\ ret.op = "AddPod"
    /\ ret.err # NoErr
    /\ Len(pods) = 2
    /\ Len(log) > 0
    /\ SucceededAt(Len(log))

\* the fields of a structure that carry an import, export or filter tag,
\* those of its embedded structures included
RECURSIVE NumTagged(_, _)
NumTagged(fields, i) ==
    IF i > Len(fields) THEN 0
    ELSE NumTagged(fields, i + 1)
         + (IF fields[i].Anonymous THEN NumTagged(fields[i].Fields, 1)
            ELSE IF DOMAIN fields[i].Tag \cap {"import", "export", "filter"} # {} THEN 1
            ELSE 0)

\* the number of entries each pod type declares
NumDeclared == [k \in PodTypes |-> NumTagged(StructDef(k).fields, 1)]

\* pod type k is a pointer to a structure that declares at least one entry
WellShaped(k) == Kind(k) = "ptr" /\ ElemKind(k) = "struct" /\ NumDeclared[k] > 0

\* every entry pod type k declares parses: each became an entry of the pod
AllParse(k) == NumEntries(k) = NumDeclared[k]

\* C25: an AddPod call with a pod that is not a pointer to a structure, or
\* whose structure declares no import, export or filter entry, returns
\* ErrInvalidPod and registers nothing; an AddPod call with a pointer to a
\* structure that declares at least one entry, all of which parse, returns
\* no error and appends the pod
C25_InvalidPodRejected ==
    [][\A k \in program :
          (pc.at = "idle" /\ pc' = pc /\ log' = log /\ calls' = calls /\ AddPod(k)) =>
              /\ ~WellShaped(k) =>
                     /\ ret'.err.Kind = "ErrInvalidPod"
                     /\ pods' = pods
              /\ (WellShaped(k) /\ AllParse(k)) =>
                     /\ ret'.err = NoErr
                     /\ Len(pods') = Len(pods) + 1
                     /\ SubSeq(pods', 1, Len(pods)) = pods
                     /\ pods'[Len(pods')].Raw = k]_vars

\* AddPod returned ErrInvalidPod for a structure without entries on a pool
\* that holds a pod
C25_Witness ==
    /\ ret.op = "AddPod"
    /\ ret.err = Err("ErrInvalidPod", "no import/export/filter entry", << <<"DummyPod">> >>)
    /\ Len(pods) > 0

\* the field values fv of one pod are all zero
FieldsZero(fv) ==
    /\ \A j \in DOMAIN fv.Imports : fv.Imports[j] = Zero
    /\ \A j \in DOMAIN fv.Exports : fv.Exports[j] = Zero
    /\ \A j \in DOMAIN fv.Filters : fv.Filters[j] = NilPtr

\* C24: the step that invokes the teardown hook of a pod leaves the fields of
\* that pod as they are; the step in which the hook returns zeroes every
\* import, export and filter field of the pod, and the teardown hook of the
\* next pod is invoked only after that return
C24_HookBeforeZeroing ==
    [][/\ (log' # log /\ LastEv'.ev = "TearDown") =>
              FieldValues'[LastEv'.pod] = FieldValues[LastEv'.pod]
       /\ (pc.at = "TearDown" /\ log' # log) =>
              /\ LastEvs'[Len(LastEvs) + 1] = Event("TearDownRet", pc.pod[2], 0)
              /\ FieldsZero(FieldValues'[pc.pod[2]])]_vars

\* the teardown hook of a pod runs, the export field of the pod still holds
\* its value, and the fields of the pod torn down before it are zeroed
C24_Witness ==
    /\ pc.at = "TearDown"
    /\ \E j \in DOMAIN pods[pc.pod[2]].ExportEntries :
           pods[pc.pod[2]].ExportEntries[j].FieldValue # Zero
    /\ \E n \in DOMAIN LastEvs :
           /\ LastEvs[n].ev = "TearDownRet"
           /\ FieldsZero(FieldValues[LastEvs[n].pod])
           /\ NumImports(LastEvs[n].pod) > 0

\* the pod whose pod.SetUp is running at event n of the last call: the pod of
\* the latest setup hook that returned
SettingUpAt(n) ==
    LastEvs[CHOOSE k \in 1..n : /\ LastEvs[k].ev = "SetUpRet"
                                /\ \A l \in (k + 1)..n : LastEvs[l].ev # "SetUpRet"].pod

\* the positions of the teardown hook invocations of pod i in the last call
TearDownsOf(i) == {n \in DOMAIN LastEvs : LastEvs[n] = Event("TearDown", i, 0)}

\* C26: in a SetUp call, the teardown hook of a pod whose setup hook failed is
\* not invoked; when a filter hook on an export of a pod fails, the teardown
\* hook of that pod is invoked exactly once, right after the failure and
\* before the teardown hook of every other pod
C26_RollbackAsymmetry ==
    InSetUp =>
        \A n \in DOMAIN LastEvs :
            /\ LastEvs[n].ev = "SetUpErr" => TearDownsOf(LastEvs[n].pod) = {}
            /\ LastEvs[n].ev = "FilterErr" =>
                   /\ TearDownsOf(SettingUpAt(n)) = {n + 1}
                   /\ \A l \in DOMAIN LastEvs : LastEvs[l].ev = "TearDown" => l > n

\* a SetUp call returned after a filter hook on an export of the second pod
\* or a later one failed: that pod and the pods before it were torn down
C26_Witness ==
    /\ SetUpReturned
    /\ \E n \in DOMAIN LastEvs :
           /\ LastEvs[n].ev = "FilterErr"
           /\ \E l \in DOMAIN LastEvs :
                  /\ l > n + 1
                  /\ LastEvs[l].ev = "TearDown"
                  /\ LastEvs[l].pod # SettingUpAt(n)

\* C27: after a SetUp call returned the error of a setup hook or of a filter
\* hook, every import, export and filter field of every pod of the pool holds
\* its zero value, the import fields of the pod whose setup hook failed
\* included
C27_AllZeroAfterHookError ==
    (SetUpReturned /\ HookFailed) => AllFieldsZero

\* the number of events ev of pod i in the calls 1..c of the log
RECURSIVE CountEvents(_, _, _)
CountEvents(ev, i, c) ==
    IF c = 0 THEN 0
    ELSE CountEvents(ev, i, c - 1)
             + Len(SelectSeq(log[c].evs, LAMBDA e : e.ev = ev /\ e.pod = i))

\* C28: over every sequence of AddPod, SetUp and TearDown calls, the teardown
\* hook of a pod has been invoked at most as many times as its setup hook has
\* returned success
C28_TearDownsWithinSetUps ==
    \A i \in 1..Len(pods) :
        CountEvents("TearDown", i, Len(log)) <= CountEvents("SetUpRet", i, Len(log))

\* the pods reached from p over Next, and over Prev
RECURSIVE PodsOverNext(_, _)
PodsOverNext(p, fuel) ==
    IF p = NilPod \/ fuel = 0 THEN <<>>
    ELSE <<p>> \o PodsOverNext(links[p].Next, fuel - 1)

RECURSIVE PodsOverPrev(_, _)
PodsOverPrev(p, fuel) ==
    IF p = NilPod \/ fuel = 0 THEN <<>>
    ELSE <<p>> \o PodsOverPrev(links[p].Prev, fuel - 1)

\* C29: after a resolution that succeeded, following Next from firstPod
\* visits every registered pod (its element of the current pods slice) once
\* and ends at lastPod, and following Prev from lastPod visits the same pods
\* in the reverse order; also in a repeated SetUp and after pods were added
\* between two SetUp calls
C29_LinkedSequenceWellFormed ==
    (ResolvedOK /\ Len(pods) = SetUpCount) =>
        LET fwd == PodsOverNext(firstPod, Len(pods) + 1)
            bwd == PodsOverPrev(lastPod, Len(pods) + 1)
        IN /\ Len(fwd) = Len(pods)
           /\ \A i \in 1..Len(pods) : \E n \in 1..Len(fwd) : fwd[n] = <<podsCap, i>>
           /\ IF fwd = <<>> THEN lastPod = NilPod ELSE fwd[Len(fwd)] = lastPod
           /\ bwd = Reverse(fwd)

\* a SetUp of three pods resolved after an earlier SetUp of fewer pods had
\* succeeded: pods were added, and the slice reallocated, in between
C29_Witness ==
    /\ ResolvedOK
    /\ Len(pods) = 3
    /\ SetUpCount = 3
    /\ \E c \in 1..(Len(log) - 1) : SucceededAt(c) /\ log[c].pods < 3

\* filter f (pod, entry) is on an export of its own pod
OwnFilters ==
    {f \in UNION {{<<i, k>> : k \in DOMAIN pods[i].FilterEntries} : i \in 1..Len(pods)} :
        \E j \in DOMAIN pods[f[1]].ExportEntries :
            \E n \in DOMAIN pods[f[1]].ExportEntries[j].FilterEntries :
                pods[f[1]].ExportEntries[j].FilterEntries[n] = f}

\* the pods as phases 1 and 2 of the last resolution left them, with every
\* filter of a pod on its own export taken off the filter list of that export:
\* the dependency graph phase 3 walks, less the edges of the own filters
WithoutOwnFilters ==
    [i \in 1..Len(pods) |->
        [pods[i] EXCEPT !.ExportEntries =
            [j \in DOMAIN @ |->
                [@[j] EXCEPT !.FilterEntries = SelectSeq(@, LAMBDA f : f[1] # i)]]]]

\* the third loop of PodPool.resolve alone, on pods ps whose imports and filter
\* lists are resolved already: phases 1 and 2 are not run, so no filter is put
\* (back) on a list
Resolve3Only(ps, lnk, c) ==
    ResolveLoop3([pods |-> ps, links |-> lnk, err |-> NoErr,
                  fieldType2ExportEntry |-> EmptyMap,
                  refID2ExportEntry |-> EmptyMap,
                  stack |-> <<>>, podStates |-> EmptyMap, entered |-> <<>>,
                  firstPod |-> NilPod, lastPod |-> NilPod], c, 1)

\* the pods linked from p over Next in the links lnk
RECURSIVE OrderIn(_, _, _)
OrderIn(lnk, p, fuel) ==
    IF p = NilPod \/ fuel = 0 THEN <<>>
    ELSE <<p[2]>> \o OrderIn(lnk, lnk[p].Next, fuel - 1)

\* the ordering r of the graph without the own filters ends as the last SetUp
\* call did and, on success, gives the same setup order
SameResolution(r) ==
    /\ r.err.Kind = ret.err.Kind
    /\ r.err = NoErr => OrderIn(r.links, r.firstPod, Len(pods) + 1) = LinkedOrder

\* the last SetUp has come back from resolve with phases 1 and 2 passed, and
\* nothing has happened since: the ordering is the one of the pods as they are
JustOrdered ==
    /\ InSetUp
    /\ Len(LastEvs) = 1
    /\ ret.op = "SetUp"
    /\ ret.err.Kind \notin BadEntryKinds

\* C30: a filter of a pod on an export of the same pod adds no dependency.
\* When a pool holds such a filter, (1) the ordering phase of SetUp fails with
\* a circular dependency, or succeeds with a setup order, exactly as phase 3
\* does on the same resolved pods with the own filters taken off the filter
\* lists of the exports; (2) SetUp fails with a circular dependency only if the
\* declared dependencies, the own filters not among them, have a cycle; (3) in
\* a SetUp that succeeds the filter is still invoked, once, after the setup
\* hook of its pod returned and before the next pod is set up, and not before
\* a filter of the same export with a higher priority
C30_OwnFilterNoEdge ==
    /\ (JustOrdered /\ OwnFilters # {}) =>
           SameResolution(Resolve3Only(WithoutOwnFilters, links, podsCap))
    /\ (JustOrdered /\ OwnFilters # {} /\ ret.err.Kind = "ErrPodCircularDependency") =>
           HasCycle(Len(pods))
    /\ SetUpSucceeded =>
           \A f \in OwnFilters :
               \E x \in DOMAIN LastEvs :
                   /\ LastEvs[x] = Event("Filter", f[1], f[2])
                   /\ SettingUpAt(x) = f[1]
                   /\ \A y \in DOMAIN LastEvs :
                          /\ LastEvs[y] = LastEvs[x] => y = x
                          /\ (LastEvs[y].ev = "Filter" /\ SameExportFilters(LastEvs[x], LastEvs[y])
                                 /\ x < y) =>
                                 FilterPriority(LastEvs[x]) >= FilterPriority(LastEvs[y])
                          /\ (LastEvs[y].ev = "Filter" /\ SameExportFilters(LastEvs[x], LastEvs[y])
                                 /\ y < x) =>
                                 FilterPriority(LastEvs[y]) >= FilterPriority(LastEvs[x])

\* pod1, whose filter Foo2 is on its own export Foo, was set up after the pod
\* of the other filter of Foo although it was registered first, and its own
\* filter ran first of the two
C30_Witness ==
    /\ SetUpSucceeded
    /\ \E f \in OwnFilters :
           \E x, y \in DOMAIN LastEvs :
               /\ LastEvs[x] = Event("Filter", f[1], f[2])
               /\ LastEvs[y].ev = "Filter"
               /\ LastEvs[y].pod > f[1]
               /\ SameExportFilters(LastEvs[x], LastEvs[y])
               /\ x < y
               /\ Pos(LinkedOrder, LastEvs[y].pod) < Pos(LinkedOrder, f[1])

\* the number of import entries and of entries in the filter lists of the
\* exports of the pods ps: the entries doResolve3 follows
EntriesFollowed(ps) ==
    Cardinality(UNION {{<<i, j>> : j \in DOMAIN ps[i].ImportEntries} : i \in DOMAIN ps})
    + Cardinality(UNION {UNION {{<<i, j, k>> : k \in DOMAIN ps[i].ExportEntries[j].FilterEntries} :
                                   j \in DOMAIN ps[i].ExportEntries} : i \in DOMAIN ps})

\* the resolution r ended by the rules of phase 3: EnterPod was called at most
\* once for each pod of the loop and each entry followed, a pod was expanded
\* (entered in the state it has before it is first entered) at most once, and
\* on success the stack is empty and every pod of the slice is marked left
Phase3Ended(r) ==
    /\ Len(r.entered) <= Len(r.pods) + EntriesFollowed(r.pods)
    /\ \A a, b \in DOMAIN r.entered :
           (r.entered[a][2] = 0 /\ r.entered[b][2] = 0
               /\ r.entered[a][1][2] = r.entered[b][1][2]) => a = b
    /\ r.err = NoErr =>
           /\ r.stack = <<>>
           /\ \A i \in 1..Len(r.pods) :
                  /\ <<podsCap, i>> \in DOMAIN r.podStates
                  /\ r.podStates[<<podsCap, i>>] = resolution3PodLeft
    /\ r.err.Kind = "ErrPodCircularDependency" => r.stack # <<>>

\* C31: the resolution a SetUp call performs on the pool ends, with a cycle
\* among the pods or without: it enters a pod at most once for each pod and
\* each entry it follows and expands no pod twice, and when it succeeds the
\* frame stack is empty and every registered pod is marked as left
C31_Phase3Terminates ==
    pc.at = "idle" => Phase3Ended(Resolve(pods, links, podsCap))

\* the resolution r succeeded and reached a pod again that it had left
Revisited(r) ==
    /\ r.err = NoErr
    /\ \E a \in DOMAIN r.entered : r.entered[a][2] = resolution3PodLeft

\* a pool of three pods whose resolution succeeds and comes back to a pod it
\* has finished
C31_Witness ==
    /\ pc.at = "idle"
    /\ Len(pods) = 3
    /\ Revisited(Resolve(pods, links, podsCap))

\* the frames of a trace: the parts between the arrows
RECURSIVE SplitFrames(_, _)
SplitFrames(t, cur) ==
    IF t = <<>> THEN <<cur>>
    ELSE IF Head(t) = <<" ==> ">> THEN <<cur>> \o SplitFrames(Tail(t), <<>>)
    ELSE SplitFrames(Tail(t), Append(cur, Head(t)))

\* the trace of the error that the last SetUp call returned, in frames
TraceFrames == SplitFrames(Tail(ret.err.Msg), <<>>)

\* x is the path of an entry of a registered pod
IsEntryPath(x) ==
    \E i \in 1..Len(pods) :
        \/ \E j \in DOMAIN pods[i].ImportEntries : pods[i].ImportEntries[j].Path = x
        \/ \E j \in DOMAIN pods[i].ExportEntries : pods[i].ExportEntries[j].Path = x
        \/ \E j \in DOMAIN pods[i].FilterEntries : pods[i].FilterEntries[j].Path = x

\* a frame is the triggering entry path, the separator and the active entry
\* path of one pod, or one path alone
FrameShaped(fr) ==
    \/ Len(fr) = 1 /\ IsEntryPath(fr[1])
    \/ /\ Len(fr) = 3
       /\ IsEntryPath(fr[1])
       /\ fr[2] = <<" ... ">>
       /\ IsEntryPath(fr[3])
       /\ fr[1][1] = fr[3][1]

\* from and to are the two ends of a dependency: an import and the export it
\* is bound to, or an export and a filter of another pod on its list
IsEdge(from, to) ==
    \E i \in 1..Len(pods) :
        \/ \E j \in DOMAIN pods[i].ImportEntries :
               /\ pods[i].ImportEntries[j].Path = from
               /\ pods[i].ImportEntries[j].ExportEntry # NoEntry
               /\ pods[pods[i].ImportEntries[j].ExportEntry[1]]
                      .ExportEntries[pods[i].ImportEntries[j].ExportEntry[2]].Path = to
        \/ \E j \in DOMAIN pods[i].ExportEntries :
               /\ pods[i].ExportEntries[j].Path = from
               /\ \E n \in DOMAIN pods[i].ExportEntries[j].FilterEntries :
                      LET f == pods[i].ExportEntries[j].FilterEntries[n]
                      IN f[1] # i /\ pods[f[1]].FilterEntries[f[2]].Path = to

\* C32: the trace of an ErrPodCircularDependency is a sequence of at least two
\* frames joined by " ==> ": the first is the active entry path of the root
\* pod, every frame between has the triggering entry path, " ... " and the
\* active entry path of one pod, the last is the triggering entry path alone
\* of the pod that was reached again, which has a frame earlier in the trace;
\* the active path of each frame and the triggering path of the next are the
\* two ends of a dependency
C32_CycleTrace ==
    (pc.at = "idle" /\ ret.op = "SetUp" /\ ret.err.Kind = "ErrPodCircularDependency") =>
        LET fs == TraceFrames
        IN /\ ret.err.Msg[1] = <<"stackTrace">>
           /\ Len(fs) >= 2
           /\ \A n \in DOMAIN fs : FrameShaped(fs[n])
           /\ Len(fs[1]) = 1
           /\ Len(fs[Len(fs)]) = 1
           /\ \A n \in 2..(Len(fs) - 1) : Len(fs[n]) = 3
           /\ \E n \in 1..(Len(fs) - 1) : fs[n][1][1] = fs[Len(fs)][1][1]
           /\ \A n \in 1..(Len(fs) - 1) : IsEdge(fs[n][Len(fs[n])], fs[n + 1][1])

\* a trace of three frames, the middle one with both of its paths, the cycle
\* through two pods
C32_Witness ==
    /\ pc.at = "idle"
    /\ ret.op = "SetUp"
    /\ ret.err.Kind = "ErrPodCircularDependency"
    /\ Len(TraceFrames) = 3
    /\ Len(TraceFrames[2]) = 3
    /\ TraceFrames[1][1][1] = TraceFrames[3][1][1]

====
